---- MODULE Spec2Model ----
(***************************************************************************)
(* A model of the magnus binding layer: Integer (fixnum / bignum dual      *)
(* representation, src/src/integer.rs), RArray and TypedArray              *)
(* (src/src/r_array.rs), the classification of values (r_object.rs,        *)
(* r_file.rs, macros.rs) and threads (src/src/thread.rs).                  *)
(*                                                                         *)
(* Machine words are modelled at a reduced width WordBits (the code runs   *)
(* at 64): VALUE, i64 and isize are WordBits wide and the fixnum range is  *)
(* one bit narrower than the signed word, as in CRuby.  Every boundary of  *)
(* the code appears as the same expression of the width (2^62 is           *)
(* Pow2(WordBits - 2), i64::MAX is Pow2(WordBits - 1) - 1).                *)
(***************************************************************************)
EXTENDS Integers, Sequences, FiniteSets, TLC

VARIABLES acc, arg, log, origin,
          arr, roots, alast, handles, items,
          ipc, ilower, ifallible, buf, bi, iary, pulled, iret, icats,
          kind, klass,
          debug, vin, vop, vout,
          clo, slot, bridge, thr, marked, drops, invoked, held,
          tstat, tret,
          vstore, view

intVars == <<acc, arg, log, origin>>

aryVars == <<arr, roots, alast, handles, items>>

iterVars == <<ipc, ilower, ifallible, buf, bi, iary, pulled, iret, icats>>

\* which handle type the native side holds for each array, and whether the
\* array object has a class
tyVars == <<kind, klass>>

\* the build, and the last conversion made of a foreign value
valVars == <<debug, vin, vop, vout>>

\* a closure wrapped for a thread
thrVars == <<clo, slot, bridge, thr, marked, drops, invoked, held>>

\* the threads of the scheduler
schedVars == <<tstat, tret>>

\* an array and the borrowed view of its storage
viewVars == <<vstore, view>>

extVars == <<valVars, thrVars, schedVars, viewVars>>

vars == <<intVars, aryVars, iterVars, tyVars, extVars>>

-----------------------------------------------------------------------------
(* Bounds of the model *)

\* width of VALUE / i64 / isize / c_long in the model (64 in the code)
WordBits == 6

\* heap big integers range over i64::MIN - BigSlack .. i64::MAX + BigSlack
BigSlack == 2

-----------------------------------------------------------------------------
(* Machine arithmetic *)

RECURSIVE Pow2(_)
Pow2(n) == IF n = 0 THEN 1 ELSE 2 * Pow2(n - 1)

\* the number of VALUE words
WordSize == Pow2(WordBits)

I64Min == 0 - Pow2(WordBits - 1)

I64Max == Pow2(WordBits - 1) - 1

\* RUBY_FIXNUM_MAX = LONG_MAX >> 1, RUBY_FIXNUM_MIN = LONG_MIN >> 1
FixnumMax == Pow2(WordBits - 2) - 1

FixnumMin == 0 - Pow2(WordBits - 2)

I64 == I64Min .. I64Max

\* `as i64` of a VALUE word
AsI64(u) == IF u > I64Max THEN u - WordSize ELSE u

\* `as u64` / `as VALUE` of a signed word
AsU64(s) == s % WordSize

NoneI64 == [some |-> FALSE, v |-> 0]

SomeI64(v) == [some |-> TRUE, v |-> v]

Checked(v) == IF v \in I64 THEN SomeI64(v) ELSE NoneI64

checked_add(a, b) == Checked(a + b)

checked_sub(a, b) == Checked(a - b)

checked_mul(a, b) == Checked(a * b)

\* checked_add(a, b), and then checked_sub(c) of the sum
checked_add_then_sub(a, b, c) ==
    IF checked_add(a, b).some THEN checked_sub(checked_add(a, b).v, c)
    ELSE NoneI64

\* checked_sub(a, b), and then checked_add(c) of the difference
checked_sub_then_add(a, b, c) ==
    IF checked_sub(a, b).some THEN checked_add(checked_sub(a, b).v, c)
    ELSE NoneI64

-----------------------------------------------------------------------------
(* Integer values.  An Integer is a VALUE: an immediate whose word `raw`   *)
(* has RUBY_FIXNUM_FLAG (bit 0) set and holds the number in the remaining  *)
(* bits, or an aligned pointer (bit 0 clear) to a heap T_BIGNUM holding    *)
(* the number `big`.                                                       *)

\* the word of a pointer to a heap object: aligned, so the flag bit is clear
HeapWord == 2 * 4

Immediate(raw) == [raw |-> raw, big |-> 0]

HeapBig(n) == [raw |-> HeapWord, big |-> n]

RUBY_FIXNUM_FLAG(v) == v.raw % 2

\* Fixnum::from_i64_impl: Some(fixnum) iff n is in the fixnum range; the
\* word is n + n + 1 (wrapping)
Fixnum_from_i64_impl(n) ==
    IF FixnumMin <= n /\ n <= FixnumMax
    THEN [some |-> TRUE, v |-> Immediate(AsU64(n + n + 1))]
    ELSE [some |-> FALSE, v |-> Immediate(1)]

\* Fixnum::to_i64 / to_isize (rb_fix2long): arithmetic shift right by one
Fixnum_to_i64(f) == AsI64(f.raw) \div 2

\* CRuby FIXABLE / LONG2FIX
FIXABLE(n) == FixnumMin <= n /\ n <= FixnumMax

LONG2FIX(n) == Immediate(AsU64(2 * n + 1))

\* CRuby rb_ll2inum: a fixnum when the number fits, a heap bignum otherwise
rb_ll2inum(n) == IF FIXABLE(n) THEN LONG2FIX(n) ELSE HeapBig(n)

\* CRuby rb_int2big: always a heap bignum, not normalised
rb_int2big(n) == HeapBig(n)

\* CRuby rb_big_norm (bignorm): the fixnum when the number fits
rb_big_norm(b) == IF FIXABLE(b.big) THEN LONG2FIX(b.big) ELSE HeapBig(b.big)

\* the number an Integer operand of a CRuby bignum primitive denotes
NUM2BIG(v) == IF RUBY_FIXNUM_FLAG(v) # 0 THEN AsI64(v.raw) \div 2 ELSE v.big

\* CRuby rb_big_plus / rb_big_minus / rb_big_mul: exact, result normalised
rb_big_plus(x, y) == rb_big_norm(HeapBig(x.big + NUM2BIG(y)))

rb_big_minus(x, y) == rb_big_norm(HeapBig(x.big - NUM2BIG(y)))

rb_big_mul(x, y) == rb_big_norm(HeapBig(x.big * NUM2BIG(y)))

\* RBignum::to_i64: rb_num2ll under protect; RangeError when out of range
RBignum_to_i64(b) ==
    IF b.big \in I64 THEN [ok |-> TRUE, v |-> b.big]
    ELSE [ok |-> FALSE, v |-> 0]

-----------------------------------------------------------------------------
(* src/src/integer.rs *)

\* Integer::integer_type
integer_type(v) == IF RUBY_FIXNUM_FLAG(v) # 0 THEN "Fixnum" ELSE "Bignum"

integer_from_i64_wrapping(n) == LONG2FIX(n)

\* Ruby::integer_from_i64
integer_from_i64(n) ==
    LET f == Fixnum_from_i64_impl(n)
    IN  IF f.some THEN f.v ELSE rb_ll2inum(n)

to_i64_fixnum_only(v) ==
    CASE integer_type(v) = "Fixnum" -> [ok |-> TRUE, v |-> Fixnum_to_i64(v)]
      [] OTHER -> [ok |-> FALSE, v |-> 0]

\* Integer::to_i64
to_i64(v) ==
    CASE integer_type(v) = "Fixnum" -> [ok |-> TRUE, v |-> Fixnum_to_i64(v)]
      [] OTHER -> RBignum_to_i64(v)

norm_identity(v) == v

\* Integer::norm
norm(v) ==
    CASE integer_type(v) = "Fixnum" -> v
      [] OTHER -> rb_big_norm(v)

\* the result of an operator: the Integer and the foreign calls it made
Ret(v, calls) == [v |-> v, calls |-> calls]

add_unchecked(a, b) ==
    Ret(Immediate(AsU64(AsI64(a.raw) + AsI64(b.raw) - 1)), <<>>)

\* impl Add for Integer
add(a, b) ==
    CASE integer_type(a) = "Fixnum" /\ integer_type(b) = "Fixnum" ->
           LET raw_a == AsI64(a.raw)
               raw_b == AsI64(b.raw)
               result == checked_add_then_sub(raw_a, raw_b, 1)
           IN  IF result.some
               THEN Ret(Immediate(AsU64(result.v)), <<>>)
               ELSE Ret(rb_big_plus(rb_int2big(Fixnum_to_i64(a)), b),
                        <<"rb_int2big", "rb_big_plus">>)
      [] integer_type(a) = "Fixnum" /\ integer_type(b) = "Bignum" ->
           Ret(rb_big_plus(rb_int2big(Fixnum_to_i64(a)), b),
               <<"rb_int2big", "rb_big_plus">>)
      [] OTHER -> Ret(rb_big_plus(a, b), <<"rb_big_plus">>)

sub_unchecked(a, b) ==
    Ret(Immediate(AsU64(AsI64(a.raw) - AsI64(b.raw) + 1)), <<>>)

\* impl Sub for Integer
sub(a, b) ==
    CASE integer_type(a) = "Fixnum" /\ integer_type(b) = "Fixnum" ->
           LET raw_a == AsI64(a.raw)
               raw_b == AsI64(b.raw)
               result == checked_sub_then_add(raw_a, raw_b, 1)
           IN  IF result.some
               THEN Ret(Immediate(AsU64(result.v)), <<>>)
               ELSE Ret(rb_big_minus(rb_int2big(Fixnum_to_i64(a)), b),
                        <<"rb_int2big", "rb_big_minus">>)
      [] integer_type(a) = "Fixnum" /\ integer_type(b) = "Bignum" ->
           Ret(rb_big_minus(rb_int2big(Fixnum_to_i64(a)), b),
               <<"rb_int2big", "rb_big_minus">>)
      [] OTHER -> Ret(rb_big_minus(a, b), <<"rb_big_minus">>)

mul_wrapping(a, b) ==
    Ret(integer_from_i64(AsI64(AsU64(Fixnum_to_i64(a) * Fixnum_to_i64(b)))), <<>>)

\* impl Mul for Integer
mul(a, b) ==
    CASE integer_type(a) = "Fixnum" /\ integer_type(b) = "Fixnum" ->
           LET raw_a == Fixnum_to_i64(a)
               raw_b == Fixnum_to_i64(b)
               result == checked_mul(raw_a, raw_b)
           IN  IF result.some
               THEN Ret(integer_from_i64(result.v),
                        IF FIXABLE(result.v) THEN <<>> ELSE <<"rb_ll2inum">>)
               ELSE Ret(rb_big_mul(rb_int2big(Fixnum_to_i64(a)), b),
                        <<"rb_int2big", "rb_big_mul">>)
      [] integer_type(a) = "Fixnum" /\ integer_type(b) = "Bignum" ->
           Ret(rb_big_mul(rb_int2big(Fixnum_to_i64(a)), b),
               <<"rb_int2big", "rb_big_mul">>)
      [] OTHER -> Ret(rb_big_mul(a, b), <<"rb_big_mul">>)

-----------------------------------------------------------------------------
(* Comparison and division, src/src/integer.rs *)

\* std::cmp::Ordering: Less = -1, Equal = 0, Greater = 1
Less == 0 - 1

Equal == 0

Greater == 1

\* i64::partial_cmp / i8::partial_cmp: always Some
partial_cmp_native(x, y) ==
    SomeI64(IF x < y THEN Less ELSE IF x = y THEN Equal ELSE Greater)

\* CRuby rb_big_cmp on Integer operands: INT2FIX(-1), INT2FIX(0) or
\* INT2FIX(1), by the numbers the operands denote
rb_big_cmp(x, y) ==
    LONG2FIX(IF x.big < NUM2BIG(y) THEN 0 - 1
             ELSE IF x.big = NUM2BIG(y) THEN 0 ELSE 1)

\* CRuby rb_big_eq on Integer operands: bignorm(x) == y for a fixnum y,
\* sign and digits compared for a bignum y
rb_big_eq(x, y) ==
    IF RUBY_FIXNUM_FLAG(y) # 0 THEN rb_big_norm(x) = y ELSE x.big = y.big

\* the native integer types at the reduced width: i8 / u8 are WordBits - 4
\* bits wide, i16 / u16 WordBits - 3, i32 / u32 WordBits - 2 (all narrower
\* than a fixnum), i64 / u64 / isize / usize WordBits
SignedRange(bits) == (0 - Pow2(bits - 1)) .. (Pow2(bits - 1) - 1)

UnsignedRange(bits) == 0 .. (Pow2(bits) - 1)

I8 == SignedRange(WordBits - 4)

I16 == SignedRange(WordBits - 3)

I32 == SignedRange(WordBits - 2)

U8 == UnsignedRange(WordBits - 4)

U16 == UnsignedRange(WordBits - 3)

U32 == UnsignedRange(WordBits - 2)

U64 == UnsignedRange(WordBits)

U64Max == Pow2(WordBits) - 1

\* Result<T, Error> of a numeric conversion: Ok(v), or a RangeError
RangeOk(v) == [ok |-> TRUE, v |-> v]

RangeError == [ok |-> FALSE, v |-> 0]

\* Fixnum::to_i8 .. Fixnum::to_usize: Ok when the number is in the target's
\* range, a RangeError otherwise
Fixnum_to(f, range) ==
    IF Fixnum_to_i64(f) \in range THEN RangeOk(Fixnum_to_i64(f))
    ELSE RangeError

\* RBignum::to_i32 .. RBignum::to_usize: the foreign rb_num2* conversion
\* under protect (after a sign test for the unsigned targets): Ok when the
\* number is in the target's range, a RangeError otherwise
RBignum_to(b, range) ==
    IF b.big \in range THEN RangeOk(b.big) ELSE RangeError

\* Integer::to_i8: Err for a bignum, Fixnum::to_i8 (a range check) otherwise
to_i8(v) ==
    CASE integer_type(v) = "Fixnum" -> Fixnum_to(v, I8)
      [] OTHER -> RangeError

\* Result::unwrap of to_i8, then partial_cmp(&0); None stands for the panic
\* of unwrap
cmp_result(result) ==
    IF to_i8(result).ok THEN partial_cmp_native(to_i8(result).v, 0)
    ELSE NoneI64

\* impl PartialOrd for Integer
partial_cmp(a, b) ==
    CASE integer_type(a) = "Fixnum" /\ integer_type(b) = "Fixnum" ->
           Ret(partial_cmp_native(AsI64(a.raw), AsI64(b.raw)), <<>>)
      [] integer_type(a) = "Fixnum" /\ integer_type(b) = "Bignum" ->
           Ret(cmp_result(rb_big_cmp(rb_int2big(Fixnum_to_i64(a)), b)),
               <<"rb_int2big", "rb_big_cmp">>)
      [] OTHER -> Ret(cmp_result(rb_big_cmp(a, b)), <<"rb_big_cmp">>)

eq_by_word(a, b) == a.raw = b.raw

\* impl PartialEq for Integer
eq(a, b) ==
    CASE integer_type(a) = "Bignum" -> rb_big_eq(a, b)
      [] OTHER -> a.raw = norm(b).raw

\* the `/` of i64: the quotient truncated toward zero, a panic for a zero
\* divisor (and for i64::MIN / -1)
div_native(x, y) ==
    IF y = 0 THEN NoneI64
    ELSE LET q == IF (x < 0) = (y < 0)
                  THEN (IF x < 0 THEN 0 - x ELSE x) \div (IF y < 0 THEN 0 - y ELSE y)
                  ELSE 0 - ((IF x < 0 THEN 0 - x ELSE x) \div (IF y < 0 THEN 0 - y ELSE y))
         IN  Checked(q)

\* the floor of x / y, for y # 0
FloorDiv(x, y) ==
    IF y > 0 THEN x \div y ELSE (0 - x) \div (0 - y)

\* CRuby rb_big_div on Integer operands: the floored quotient, normalised;
\* ZeroDivisionError for a zero divisor
rb_big_div(x, y) ==
    IF NUM2BIG(y) = 0 THEN [raised |-> TRUE, v |-> x]
    ELSE [raised |-> FALSE, v |-> rb_big_norm(HeapBig(FloorDiv(x.big, NUM2BIG(y))))]

\* the result of `/`: the Integer, the foreign calls made, and how the call
\* ended ("ok", "panic" of the native division, "unwind" of a foreign
\* exception raised outside protect)
DivRet(v, calls, res) == [v |-> v, calls |-> calls, res |-> res]

div_to_fixnum(a, b) ==
    IF div_native(Fixnum_to_i64(a), Fixnum_to_i64(b)).some
    THEN DivRet(LONG2FIX(div_native(Fixnum_to_i64(a), Fixnum_to_i64(b)).v), <<>>, "ok")
    ELSE DivRet(a, <<>>, "panic")

\* impl Div for Integer
div(a, b) ==
    CASE integer_type(a) = "Fixnum" /\ integer_type(b) = "Fixnum" ->
           LET raw_a == Fixnum_to_i64(a)
               raw_b == Fixnum_to_i64(b)
           IN  IF div_native(raw_a, raw_b).some
               THEN DivRet(integer_from_i64(div_native(raw_a, raw_b).v),
                           IF FIXABLE(div_native(raw_a, raw_b).v)
                           THEN <<>> ELSE <<"rb_ll2inum">>, "ok")
               ELSE DivRet(a, <<>>, "panic")
      [] integer_type(a) = "Fixnum" /\ integer_type(b) = "Bignum" ->
           LET result == rb_big_div(rb_int2big(Fixnum_to_i64(a)), b)
           IN  DivRet(result.v, <<"rb_int2big", "rb_big_div">>,
                      IF result.raised THEN "unwind" ELSE "ok")
      [] OTHER ->
           LET result == rb_big_div(a, b)
           IN  DivRet(result.v, <<"rb_big_div">>,
                      IF result.raised THEN "unwind" ELSE "ok")

-----------------------------------------------------------------------------
(* The Integer state machine: an Integer `acc` and an operand `arg`, built *)
(* by integer_from_i64 or received from Ruby in either representation,     *)
(* then operated on.                                                       *)

\* every Integer of the model: the fixnums, and the heap bignums of the
\* range, those that would fit a fixnum (not normalised) included
Fixnums == {LONG2FIX(n) : n \in FixnumMin .. FixnumMax}

Bignums == {HeapBig(n) : n \in (I64Min - BigSlack) .. (I64Max + BigSlack)}

Integers == Fixnums \cup Bignums

\* the number an Integer denotes
NumVal(v) == IF RUBY_FIXNUM_FLAG(v) # 0 THEN AsI64(v.raw) \div 2 ELSE v.big

NoOut == [ok |-> FALSE, v |-> 0]

Log(op, a, b, calls, out) ==
    [op |-> op, a |-> a, b |-> b, calls |-> calls, out |-> out]

NoOrigin == [known |-> FALSE, n |-> 0]

IntInit ==
    /\ acc = LONG2FIX(0)
    /\ arg = LONG2FIX(0)
    /\ log = Log("init", LONG2FIX(0), LONG2FIX(0), <<>>, NoOut)
    /\ origin = NoOrigin

\* let acc = ruby.integer_from_i64(n), for any i64 n
FromI64 ==
    /\ log.op = "init"
    /\ \E n \in I64 :
         /\ acc' = integer_from_i64(n)
         /\ origin' = [known |-> TRUE, n |-> n]
    /\ log' = Log("from_i64", acc, arg, <<>>, NoOut)
    /\ UNCHANGED <<arg, aryVars, iterVars, tyVars, extVars>>

\* acc and arg are Integers received from Ruby (Integer::from_value), in
\* either representation
Receive ==
    /\ log.op = "init"
    /\ \E a \in Integers, b \in Integers :
         /\ acc' = a
         /\ arg' = b
    /\ log' = Log("receive", acc, arg, <<>>, NoOut)
    /\ UNCHANGED <<origin, aryVars, iterVars, tyVars, extVars>>

\* acc += arg
AddAssign ==
    /\ log.op = "receive"
    /\ acc' = add(acc, arg).v
    /\ log' = Log("add", acc, arg, add(acc, arg).calls, NoOut)
    /\ UNCHANGED <<arg, origin, aryVars, iterVars, tyVars, extVars>>

\* acc -= arg
SubAssign ==
    /\ log.op = "receive"
    /\ acc' = sub(acc, arg).v
    /\ log' = Log("sub", acc, arg, sub(acc, arg).calls, NoOut)
    /\ UNCHANGED <<arg, origin, aryVars, iterVars, tyVars, extVars>>

\* acc *= arg
MulAssign ==
    /\ log.op = "receive"
    /\ acc' = mul(acc, arg).v
    /\ log' = Log("mul", acc, arg, mul(acc, arg).calls, NoOut)
    /\ UNCHANGED <<arg, origin, aryVars, iterVars, tyVars, extVars>>

\* acc = acc.norm()
\* (the second application in a row is logged as "renorm")
Norm ==
    /\ log.op \in {"receive", "norm"}
    /\ acc' = norm(acc)
    /\ log' = Log(IF log.op = "norm" THEN "renorm" ELSE "norm",
                  acc, arg, <<>>, NoOut)
    /\ UNCHANGED <<arg, origin, aryVars, iterVars, tyVars, extVars>>

\* acc.to_i64()
ToI64 ==
    /\ log.op \in {"from_i64", "receive"}
    /\ log' = Log("to_i64", acc, arg, <<>>, to_i64(acc))
    /\ UNCHANGED <<acc, arg, origin, aryVars, iterVars, tyVars, extVars>>

\* acc.partial_cmp(&arg)
PartialCmp ==
    /\ log.op = "receive"
    /\ log' = Log("partial_cmp", acc, arg, partial_cmp(acc, arg).calls,
                  [ok |-> partial_cmp(acc, arg).v.some,
                   v |-> partial_cmp(acc, arg).v.v])
    /\ UNCHANGED <<acc, arg, origin, aryVars, iterVars, tyVars, extVars>>

\* acc == arg
Eq ==
    /\ log.op = "receive"
    /\ log' = Log("eq", acc, arg, <<>>,
                  [ok |-> TRUE, v |-> IF eq(acc, arg) THEN 1 ELSE 0])
    /\ UNCHANGED <<acc, arg, origin, aryVars, iterVars, tyVars, extVars>>

\* acc /= arg
DivAssign ==
    /\ log.op = "receive"
    /\ acc' = div(acc, arg).v
    /\ log' = Log(IF div(acc, arg).res = "ok" THEN "div" ELSE div(acc, arg).res,
                  acc, arg, div(acc, arg).calls, NoOut)
    /\ UNCHANGED <<arg, origin, aryVars, iterVars, tyVars, extVars>>

IntNext ==
    \/ FromI64
    \/ Receive
    \/ AddAssign
    \/ SubAssign
    \/ MulAssign
    \/ Norm
    \/ ToI64
    \/ PartialCmp
    \/ Eq
    \/ DivAssign

-----------------------------------------------------------------------------
(* Properties of the Integer operations *)

IsFixnum(v) == integer_type(v) = "Fixnum"

IsBignum(v) == integer_type(v) = "Bignum"

\* a VALUE that is an Integer: a tagged immediate, or a pointer to a bignum
WellFormed(v) == v \in {LONG2FIX(NumVal(v)), HeapBig(NumVal(v))}

\* C1: in each of the four representation combinations add, sub and mul
\* return an Integer whose number is exactly a+b, a-b, a*b, also when the
\* imm x imm computation overflows the fixnum range or the accumulator
C1_ArithmeticExact ==
    /\ log.op = "add" =>
         WellFormed(acc) /\ NumVal(acc) = NumVal(log.a) + NumVal(log.b)
    /\ log.op = "sub" =>
         WellFormed(acc) /\ NumVal(acc) = NumVal(log.a) - NumVal(log.b)
    /\ log.op = "mul" =>
         WellFormed(acc) /\ NumVal(acc) = NumVal(log.a) * NumVal(log.b)

\* two immediates whose product overflowed the signed accumulator: the
\* promotion path produced a bignum beyond the i64 range
C1_Witness ==
    /\ log.op = "mul"
    /\ IsFixnum(log.a) /\ IsFixnum(log.b)
    /\ log.calls = <<"rb_int2big", "rb_big_mul">>
    /\ IsBignum(acc)
    /\ NumVal(acc) > I64Max

\* C2: for every pair of immediates whose sum lies in the fixnum range, add
\* takes the fast path: no foreign call, and the result is the immediate a+b
C2_AddFastPathWheneverSumFits ==
    (/\ log.op = "add"
     /\ IsFixnum(log.a) /\ IsFixnum(log.b)
     /\ FIXABLE(NumVal(log.a) + NumVal(log.b)))
    => (/\ log.calls = <<>>
        /\ IsFixnum(acc)
        /\ NumVal(acc) = NumVal(log.a) + NumVal(log.b))

\* C3: integer_from_i64(n) followed by to_i64 is Ok(n) for every i64 n,
\* stored as an immediate or as a heap big integer
C3_RoundTripI64 ==
    (log.op = "to_i64" /\ origin.known)
    => log.out = [ok |-> TRUE, v |-> origin.n]

\* an n outside the fixnum range, stored as a bignum, was read back
C3_Witness ==
    /\ log.op = "to_i64"
    /\ origin.known
    /\ IsBignum(acc)
    /\ origin.n < FixnumMin
    /\ log.out.ok

\* C4: integer_from_i64(n) is an immediate exactly when n is in the fixnum
\* range [-2^(w-2), 2^(w-2) - 1] and a heap big integer otherwise; the two
\* boundaries on each side are spelled out
C4_ImmediateIffInRange ==
    origin.known =>
      /\ IsFixnum(acc) <=> (FixnumMin <= origin.n /\ origin.n <= FixnumMax)
      /\ IsBignum(acc) <=> ~(FixnumMin <= origin.n /\ origin.n <= FixnumMax)
      /\ origin.n = FixnumMax => IsFixnum(acc)
      /\ origin.n = FixnumMax + 1 => IsBignum(acc)
      /\ origin.n = FixnumMin => IsFixnum(acc)
      /\ origin.n = FixnumMin - 1 => IsBignum(acc)
      /\ NumVal(acc) = origin.n

\* one past the immediate boundary is a heap big integer
C4_Witness ==
    /\ log.op = "from_i64"
    /\ origin.known
    /\ origin.n = FixnumMax + 1
    /\ IsBignum(acc)

\* C10: norm returns the canonical form of the same number: an immediate is
\* unchanged, a bignum that fits the fixnum range becomes an immediate, one
\* that does not fit stays a bignum; applying norm again changes nothing
C10_NormCanonical ==
    /\ log.op \in {"norm", "renorm"} =>
         /\ NumVal(acc) = NumVal(log.a)
         /\ IsFixnum(log.a) => acc = log.a
         /\ IsFixnum(acc) <=> FIXABLE(NumVal(log.a))
    /\ log.op = "renorm" => acc = log.a

\* a bignum that fits the fixnum range was normalised to an immediate
C10_Witness ==
    /\ log.op = "norm"
    /\ IsBignum(log.a)
    /\ FIXABLE(NumVal(log.a))
    /\ IsFixnum(acc)

Abs(x) == IF x < 0 THEN 0 - x ELSE x

Sign(x) == IF x < 0 THEN Less ELSE IF x = 0 THEN Equal ELSE Greater

\* the foreign calls partial_cmp may make: none for two immediates,
\* rb_int2big and rb_big_cmp for an immediate receiver and a heap operand,
\* rb_big_cmp alone (the operand passed as it is) for a heap receiver
CmpCalls(a, b) ==
    IF IsFixnum(a) /\ IsFixnum(b) THEN <<>>
    ELSE IF IsFixnum(a) THEN <<"rb_int2big", "rb_big_cmp">>
    ELSE <<"rb_big_cmp">>

\* C11 (amended): in every representation combination, a heap big integer
\* that fits the immediate range included, partial_cmp returns
\* Some(ordering) of the two numbers, never None, and == is true exactly
\* when the numbers are equal, that is exactly when partial_cmp is Equal;
\* an immediate receiver compared with a heap operand is promoted by
\* rb_int2big before rb_big_cmp, while a heap receiver passes its operand,
\* immediate or heap, to rb_big_cmp unpromoted
C11_CompareByNumber ==
    /\ log.op = "partial_cmp" =>
         /\ log.out = [ok |-> TRUE, v |-> Sign(NumVal(log.a) - NumVal(log.b))]
         /\ log.calls = CmpCalls(log.a, log.b)
    /\ log.op = "eq" =>
         log.out.v = (IF NumVal(log.a) = NumVal(log.b) THEN 1 ELSE 0)
    /\ log.op \in {"partial_cmp", "eq"} =>
         (eq(log.a, log.b) <=> partial_cmp(log.a, log.b).v = SomeI64(Equal))

\* a heap big integer that fits the immediate range was compared with the
\* immediate of the same number
C11_Witness ==
    /\ log.op = "partial_cmp"
    /\ IsBignum(log.a) /\ FIXABLE(NumVal(log.a))
    /\ IsFixnum(log.b)
    /\ log.out = [ok |-> TRUE, v |-> Equal]

\* C11 as stated: the same, with the immediate operand promoted to heap form
\* in both mixed combinations
C11_MixedAlwaysPromotes ==
    /\ log.op = "partial_cmp" =>
         /\ log.out = [ok |-> TRUE, v |-> Sign(NumVal(log.a) - NumVal(log.b))]
         /\ IsFixnum(log.a) # IsFixnum(log.b) =>
              log.calls = <<"rb_int2big", "rb_big_cmp">>
    /\ log.op = "eq" =>
         log.out.v = (IF NumVal(log.a) = NumVal(log.b) THEN 1 ELSE 0)

\* C12: immediate / immediate with a non-zero divisor never panics on
\* overflow: the result is the Integer of the quotient truncated toward
\* zero, and FixnumMin / -1, whose quotient is one past the immediate range,
\* is a heap big integer of that number
C12_FixnumDivNoOverflow ==
    (/\ log.op \in {"div", "panic"}
     /\ IsFixnum(log.a) /\ IsFixnum(log.b)
     /\ NumVal(log.b) # 0)
    => (/\ log.op = "div"
        /\ WellFormed(acc)
        /\ Abs(NumVal(log.a) - NumVal(acc) * NumVal(log.b)) < Abs(NumVal(log.b))
        /\ Sign(NumVal(log.a) - NumVal(acc) * NumVal(log.b)) \in {Equal, Sign(NumVal(log.a))}
        /\ (NumVal(log.a) = FixnumMin /\ NumVal(log.b) = 0 - 1) =>
             (IsBignum(acc) /\ NumVal(acc) = FixnumMax + 1))

\* the smallest immediate was divided by -1
C12_Witness ==
    /\ log.op = "div"
    /\ log.a = LONG2FIX(FixnumMin)
    /\ log.b = LONG2FIX(0 - 1)
    /\ IsBignum(acc)
    /\ log.calls = <<"rb_ll2inum">>
-----------------------------------------------------------------------------
(* Conversions between Integer and the native integer types,               *)
(* src/src/integer.rs                                                      *)

to_i8_by_number(v) ==
    IF NumVal(v) \in I8 THEN RangeOk(NumVal(v)) ELSE RangeError

\* Integer::to_i16
to_i16(v) ==
    CASE integer_type(v) = "Fixnum" -> Fixnum_to(v, I16)
      [] OTHER -> RangeError

\* Integer::to_i32
to_i32(v) ==
    CASE integer_type(v) = "Fixnum" -> Fixnum_to(v, I32)
      [] OTHER -> RBignum_to(v, I32)

\* Integer::to_isize
to_isize(v) ==
    CASE integer_type(v) = "Fixnum" -> RangeOk(Fixnum_to_i64(v))
      [] OTHER -> RBignum_to(v, I64)

\* Integer::to_u8
to_u8(v) ==
    CASE integer_type(v) = "Fixnum" -> Fixnum_to(v, U8)
      [] OTHER -> RangeError

\* Integer::to_u16
to_u16(v) ==
    CASE integer_type(v) = "Fixnum" -> Fixnum_to(v, U16)
      [] OTHER -> RangeError

\* Integer::to_u32
to_u32(v) ==
    CASE integer_type(v) = "Fixnum" -> Fixnum_to(v, U32)
      [] OTHER -> RBignum_to(v, U32)

\* Integer::to_u64
to_u64(v) ==
    CASE integer_type(v) = "Fixnum" -> Fixnum_to(v, U64)
      [] OTHER -> RBignum_to(v, U64)

\* Integer::to_usize
to_usize(v) ==
    CASE integer_type(v) = "Fixnum" -> Fixnum_to(v, U64)
      [] OTHER -> RBignum_to(v, U64)

\* i64::try_from(n).unwrap_or(i64::MAX) of a u64 n
i64_try_from_or_max(n) == IF n <= I64Max THEN n ELSE I64Max

\* CRuby rb_ull2inum: a fixnum when the number fits, a heap bignum otherwise
rb_ull2inum(n) == IF n <= FixnumMax THEN LONG2FIX(n) ELSE HeapBig(n)

integer_from_u64_saturating(n) ==
    integer_from_i64(i64_try_from_or_max(n))

\* Ruby::integer_from_u64
integer_from_u64(n) ==
    LET f == Fixnum_from_i64_impl(i64_try_from_or_max(n))
    IN  IF f.some THEN f.v ELSE rb_ull2inum(n)

\* the conversion methods, and the range of the type each one returns
Targets ==
    {"to_i8", "to_i16", "to_i32", "to_i64", "to_isize",
     "to_u8", "to_u16", "to_u32", "to_u64", "to_usize"}

TargetRange(t) ==
    CASE t = "to_i8" -> I8
      [] t = "to_i16" -> I16
      [] t = "to_i32" -> I32
      [] t \in {"to_i64", "to_isize"} -> I64
      [] t = "to_u8" -> U8
      [] t = "to_u16" -> U16
      [] t = "to_u32" -> U32
      [] t \in {"to_u64", "to_usize"} -> U64

to_target(t, v) ==
    CASE t = "to_i8" -> to_i8(v)
      [] t = "to_i16" -> to_i16(v)
      [] t = "to_i32" -> to_i32(v)
      [] t = "to_i64" -> to_i64(v)
      [] t = "to_isize" -> to_isize(v)
      [] t = "to_u8" -> to_u8(v)
      [] t = "to_u16" -> to_u16(v)
      [] t = "to_u32" -> to_u32(v)
      [] t = "to_u64" -> to_u64(v)
      [] t = "to_usize" -> to_usize(v)

\* the heap bignums of the model up to u64::MAX + BigSlack
WideBignums == {HeapBig(n) : n \in (I64Min - BigSlack) .. (U64Max + BigSlack)}

\* let acc = ruby.integer_from_u64(n), for any u64 n
FromU64 ==
    /\ log.op = "init"
    /\ \E n \in U64 :
         /\ acc' = integer_from_u64(n)
         /\ origin' = [known |-> TRUE, n |-> n]
    /\ log' = Log("from_u64", acc, arg, <<>>, NoOut)
    /\ UNCHANGED <<arg, aryVars, iterVars, tyVars, extVars>>

\* acc is an Integer received from Ruby, in either representation
ReceiveOne ==
    /\ log.op = "init"
    /\ acc' \in Fixnums \cup WideBignums
    /\ log' = Log("received", acc, arg, <<>>, NoOut)
    /\ UNCHANGED <<arg, origin, aryVars, iterVars, tyVars, extVars>>

\* acc.to_i8(), ..., acc.to_usize()
ToTarget(t) ==
    /\ log.op \in {"from_u64", "received"}
    /\ log' = Log(t, acc, arg, <<>>, to_target(t, acc))
    /\ UNCHANGED <<acc, arg, origin, aryVars, iterVars, tyVars, extVars>>

ConvNext ==
    \/ FromU64
    \/ ReceiveOne
    \/ \E t \in Targets : ToTarget(t)


-----------------------------------------------------------------------------
(* Values held by arrays, and the foreign array object                     *)
(*                                                                         *)
(* An array object either owns its elements (elts) or is a view of length  *)
(* n at offset off into the buffer of a shared root (roots[root]).  A      *)
(* frozen array that was shared out is its own shared root: it owns its    *)
(* elements and names the root that holds them.  Buffers of shared roots   *)
(* are never written: a writer first takes a private copy (rb_ary_modify). *)

\* arrays of the model hold at most MaxLen elements
MaxLen == 2

\* largest length stored inside the array object itself; longer arrays keep
\* their elements in a heap buffer that can be shared
EmbedLenMax == 1

\* the handles of the model, in a fixed order
HandleSeq == <<"A", "B">>

Handles == {HandleSeq[k] : k \in 1 .. Len(HandleSeq)}

RootIds == 1 .. Len(HandleSeq)

QNIL == [t |-> "nil", n |-> 0]

QTRUE == [t |-> "true", n |-> 0]

QFALSE == [t |-> "false", n |-> 0]

FixVal(k) == [t |-> "fixnum", n |-> k]

\* an object whose == method raises
RaisingObj == [t |-> "object", n |-> 0]

\* rb_equal: identical values are equal without a method call, otherwise
\* the receiver's == is called (Integer#== hands an operand that is not a
\* number to the operand's own ==)
rb_equal(x, y) ==
    IF x = y THEN "true"
    ELSE IF x.t = "object" THEN "raise"
    ELSE IF x.t = "fixnum" /\ y.t = "object" THEN "raise"
    ELSE "false"

\* sort_2 / rb_cmpint: fixnums compare by number, identical values compare
\* equal, any other pair makes <=> return nil and the sort raise
Comparable(x, y) == x = y \/ (x.t = "fixnum" /\ y.t = "fixnum")

\* largest array length the foreign runtime accepts
ARY_MAX_SIZE == I64Max \div 2

NoRoots == [r \in RootIds |-> <<>>]

rb_ary_new == [elts |-> <<>>, shared |-> FALSE, root |-> 0, off |-> 0,
               n |-> 0, frozen |-> FALSE]

ARY_SHARED_P(a) == a.shared

\* the elements of array a (RARRAY_CONST_PTR / RARRAY_LEN)
RARRAY(a, rs) ==
    IF a.shared THEN SubSeq(rs[a.root], a.off + 1, a.off + a.n) ELSE a.elts

RARRAY_LEN(a, rs) == IF a.shared THEN a.n ELSE Len(a.elts)

\* array a owning the elements e: the outcome of rb_ary_modify followed by
\* a write
Owning(a, e) ==
    [a EXCEPT !.elts = e, !.shared = FALSE, !.root = 0, !.off = 0, !.n = 0]

rb_ary_new_from_values(e) == Owning(rb_ary_new, e)

\* outcome of a foreign call: it raised, or it returned val, and a is the
\* array afterwards
Raised(a) == [raised |-> TRUE, a |-> a, val |-> QNIL]

Returned(a, v) == [raised |-> FALSE, a |-> a, val |-> v]

\* rb_ary_modify_check raises FrozenError on a frozen array
rb_ary_modify_check(a) == a.frozen

\* rb_ary_modify: the frozen check, then a shared array gets a private copy
rb_ary_modify(a, rs) ==
    IF rb_ary_modify_check(a) THEN Raised(a)
    ELSE Returned(Owning(a, RARRAY(a, rs)), QNIL)

rb_obj_freeze(a) == [a EXCEPT !.frozen = TRUE]

rb_ary_push(a, rs, item) ==
    IF rb_ary_modify_check(a) THEN Raised(a)
    ELSE Returned(Owning(a, Append(RARRAY(a, rs), item)), QNIL)

\* pop shortens a shared view in place, it takes no private copy
rb_ary_pop(a, rs) ==
    LET e == RARRAY(a, rs)
        len == Len(e)
    IN  IF rb_ary_modify_check(a) THEN Raised(a)
        ELSE IF len = 0 THEN Returned(a, QNIL)
        ELSE IF ARY_SHARED_P(a)
             THEN Returned([a EXCEPT !.n = len - 1], e[len])
        ELSE Returned(Owning(a, SubSeq(e, 1, len - 1)), e[len])

\* shift (rb_ary_behead) advances a shared view, it takes no private copy
rb_ary_shift(a, rs) ==
    LET e == RARRAY(a, rs)
        len == Len(e)
    IN  IF rb_ary_modify_check(a) THEN Raised(a)
        ELSE IF len = 0 THEN Returned(a, QNIL)
        ELSE IF ARY_SHARED_P(a)
             THEN Returned([a EXCEPT !.off = a.off + 1, !.n = len - 1], e[1])
        ELSE Returned(Owning(a, SubSeq(e, 2, len)), e[1])

rb_ary_unshift(a, rs, item) ==
    IF rb_ary_modify_check(a) THEN Raised(a)
    ELSE Returned(Owning(a, <<item>> \o RARRAY(a, rs)), QNIL)

\* idx counts from 0; a negative idx counts from the end
rb_ary_store(a, rs, idx, val) ==
    LET e == RARRAY(a, rs)
        len == Len(e)
        at == IF idx < 0 THEN idx + len ELSE idx
        padded == e \o [k \in 1 .. (at + 1 - len) |-> QNIL]
    IN  IF at < 0 \/ at >= ARY_MAX_SIZE THEN Raised(a)
        ELSE IF rb_ary_modify_check(a) THEN Raised(a)
        ELSE Returned(Owning(a, [padded EXCEPT ![at + 1] = val]), QNIL)

\* rb_ary_delete: the elements that differ from item are moved to the front
\* (rb_ary_store) while scanning, then the array is cut (ary_resize_smaller);
\* i1 and i2 count from 0.  With no element equal to item nothing is stored
\* or cut, and the frozen check is never reached.
RECURSIVE rb_ary_delete_from(_, _, _, _, _)
rb_ary_delete_from(a, rs, item, i1, i2) ==
    LET e == RARRAY(a, rs)
    IN  IF i1 >= Len(e)
        THEN IF Len(e) = i2 THEN Returned(a, QNIL)
             ELSE IF rb_ary_modify(a, rs).raised THEN Raised(a)
             ELSE Returned(Owning(a, SubSeq(e, 1, i2)), item)
        ELSE LET x == e[i1 + 1]
                 same == rb_equal(x, item)
             IN  IF same = "raise" THEN Raised(a)
                 ELSE IF same = "true"
                      THEN rb_ary_delete_from(a, rs, item, i1 + 1, i2)
                 ELSE IF i1 # i2
                      THEN LET s == rb_ary_store(a, rs, i2, x)
                           IN  IF s.raised THEN Raised(a)
                               ELSE rb_ary_delete_from(s.a, rs, item,
                                                       i1 + 1, i2 + 1)
                 ELSE rb_ary_delete_from(a, rs, item, i1 + 1, i2 + 1)

rb_ary_delete(a, rs, item) == rb_ary_delete_from(a, rs, item, 0, 0)

\* pos counts from 0; a position outside the array returns nil before the
\* frozen check
rb_ary_delete_at(a, rs, pos) ==
    LET e == RARRAY(a, rs)
        len == Len(e)
        at == IF pos < 0 THEN pos + len ELSE pos
    IN  IF pos >= len \/ at < 0 THEN Returned(a, QNIL)
        ELSE IF rb_ary_modify(a, rs).raised THEN Raised(a)
        ELSE Returned(Owning(a, SubSeq(e, 1, at) \o SubSeq(e, at + 2, len)),
                      e[at + 1])

rb_ary_clear(a) ==
    IF rb_ary_modify_check(a) THEN Raised(a)
    ELSE Returned(Owning(a, <<>>), QNIL)

rb_ary_resize(a, rs, len) ==
    LET e == RARRAY(a, rs)
        olen == Len(e)
    IN  IF rb_ary_modify(a, rs).raised THEN Raised(a)
        ELSE IF len = olen THEN Returned(Owning(a, e), QNIL)
        ELSE IF len > ARY_MAX_SIZE THEN Raised(Owning(a, e))
        ELSE IF len > olen
             THEN Returned(Owning(a, e \o [k \in 1 .. (len - olen) |-> QNIL]),
                           QNIL)
        ELSE Returned(Owning(a, SubSeq(e, 1, len)), QNIL)

Reversed(e) == [k \in 1 .. Len(e) |-> e[Len(e) + 1 - k]]

rb_ary_reverse(a, rs) ==
    IF rb_ary_modify(a, rs).raised THEN Raised(a)
    ELSE Returned(Owning(a, Reversed(RARRAY(a, rs))), QNIL)

\* rotate_count: the left rotation, in 0 .. len - 1, that cnt stands for
rotate_count(cnt, len) == cnt % len

rb_ary_rotate(a, rs, cnt) ==
    LET e == RARRAY(a, rs)
        len == Len(e)
        c == IF len > 1 THEN rotate_count(cnt, len) ELSE 0
    IN  IF rb_ary_modify(a, rs).raised THEN Raised(a)
        ELSE Returned(Owning(a, SubSeq(e, c + 1, len) \o SubSeq(e, 1, c)),
                      QNIL)

\* rb_ary_sort_bang sorts a copy and installs it on success: a comparison
\* that raises leaves the elements as they were
rb_ary_sort_bang(a, rs) ==
    LET e == RARRAY(a, rs)
    IN  IF rb_ary_modify(a, rs).raised THEN Raised(a)
        ELSE IF \E j, k \in 1 .. Len(e) : ~Comparable(e[j], e[k])
             THEN Raised(Owning(a, e))
        ELSE Returned(Owning(a, SortSeq(e, LAMBDA x, y : x.n < y.n)), QNIL)

\* rb_ary_cat: the frozen check happens for every length of the addition
rb_ary_cat(a, rs, vals) ==
    IF rb_ary_modify_check(a) THEN Raised(a)
    ELSE Returned(Owning(a, RARRAY(a, rs) \o vals), QNIL)

\* rb_ary_concat (ary_append): an empty addition returns at once, before
\* any frozen check; ye holds the elements of the other array
rb_ary_concat(a, rs, ye) ==
    IF Len(ye) = 0 THEN Returned(a, QNIL)
    ELSE IF rb_ary_modify_check(a) THEN Raised(a)
    ELSE Returned(Owning(a, RARRAY(a, rs) \o ye), QNIL)

\* rb_ary_includes: rb_equal(element, item) from the front
RECURSIVE rb_ary_includes_from(_, _, _)
rb_ary_includes_from(e, item, k) ==
    IF k > Len(e) THEN "false"
    ELSE IF rb_equal(e[k], item) = "false"
         THEN rb_ary_includes_from(e, item, k + 1)
    ELSE rb_equal(e[k], item)

rb_ary_includes(a, rs, item) ==
    LET found == rb_ary_includes_from(RARRAY(a, rs), item, 1)
    IN  IF found = "raise" THEN Raised(a)
        ELSE Returned(a, IF found = "true" THEN QTRUE ELSE QFALSE)

\* rb_ary_plus returns a new array (in a) holding both operands' elements
rb_ary_plus(xe, ye) ==
    IF Len(xe) + Len(ye) > ARY_MAX_SIZE THEN Raised(rb_ary_new)
    ELSE Returned(rb_ary_new_from_values(xe \o ye), QNIL)

\* rb_ary_new_capa raises ArgumentError for a negative or too large capa
rb_ary_new_capa(capa) ==
    IF capa < 0 \/ capa > ARY_MAX_SIZE THEN Raised(rb_ary_new)
    ELSE Returned(rb_ary_new, QNIL)

-----------------------------------------------------------------------------
(* Shared storage (copy on write) *)

\* ary_make_shared: the root whose buffer holds a's elements; r is the id
\* a new root gets.  A shared array names its root; a frozen array becomes
\* the root itself; any other array hands its buffer to a new root and
\* becomes a view of it.
ary_make_shared(a, rs, r) ==
    IF ARY_SHARED_P(a) \/ a.root # 0
    THEN [a |-> a, rs |-> rs, root |-> a.root]
    ELSE IF a.frozen
    THEN [a |-> [a EXCEPT !.root = r],
          rs |-> [rs EXCEPT ![r] = a.elts], root |-> r]
    ELSE [a |-> [a EXCEPT !.elts = <<>>, !.shared = TRUE, !.root = r,
                          !.off = 0, !.n = Len(a.elts)],
          rs |-> [rs EXCEPT ![r] = a.elts], root |-> r]

\* a view of length len at offset off of root
SharedView(root, off, len) ==
    [elts |-> <<>>, shared |-> TRUE, root |-> root, off |-> off, n |-> len,
     frozen |-> FALSE]

\* ary_make_partial: up to EmbedLenMax elements are copied into the new
\* array, a longer range becomes a view of the source's shared root
ary_make_partial(a, rs, r, offset, len) ==
    IF len <= EmbedLenMax
    THEN [src |-> a, rs |-> rs,
          new |-> rb_ary_new_from_values(
                      SubSeq(RARRAY(a, rs), offset + 1, offset + len))]
    ELSE LET m == ary_make_shared(a, rs, r)
         IN  [src |-> m.a, rs |-> m.rs,
              new |-> SharedView(m.root, m.a.off + offset, len)]

\* rb_ary_subseq(ary, beg, len) for 0 <= beg <= length and len >= 0
rb_ary_subseq(a, rs, r, beg, len) ==
    LET alen == RARRAY_LEN(a, rs)
        cut == IF alen < len \/ alen < beg + len THEN alen - beg ELSE len
    IN  IF cut = 0 THEN [src |-> a, rs |-> rs, new |-> rb_ary_new]
        ELSE ary_make_partial(a, rs, r, beg, cut)

\* rb_ary_replace(copy, orig) for two different objects
rb_ary_replace(copy, orig, rs, r) ==
    IF rb_ary_modify_check(copy)
    THEN [raised |-> TRUE, copy |-> copy, orig |-> orig, rs |-> rs]
    ELSE IF RARRAY_LEN(orig, rs) <= EmbedLenMax
    THEN [raised |-> FALSE, copy |-> Owning(copy, RARRAY(orig, rs)),
          orig |-> orig, rs |-> rs]
    ELSE LET m == ary_make_shared(orig, rs, r)
         IN  [raised |-> FALSE, orig |-> m.a, rs |-> m.rs,
              copy |-> [SharedView(m.root, m.a.off, RARRAY_LEN(orig, rs))
                            EXCEPT !.frozen = copy.frozen]]

rb_ary_shared_with_p(a, b) ==
    /\ ARY_SHARED_P(a)
    /\ ARY_SHARED_P(b)
    /\ a.root = b.root
    /\ a.n = b.n

-----------------------------------------------------------------------------
(* RArray: the wrappers of src/src/r_array.rs *)

\* a native item handed to an array: an integer, or a Value passed through
NativeInt(k) == [i64 |-> k]

NativeValue(v) == [value |-> v]

\* IntoValue: an integer becomes the foreign integer of that number, a
\* Value is handed over as it is
into_value(x) == IF "i64" \in DOMAIN x THEN FixVal(x.i64) ELSE x.value

\* protect: an exception raised by the foreign call is caught and returned
\* as Err
protect(r) ==
    [res |-> IF r.raised THEN "err" ELSE "ok", a |-> r.a, val |-> r.val]

\* a foreign call made directly: an exception it raises unwinds through
\* the native frames of the caller
unprotected(r) ==
    [res |-> IF r.raised THEN "unwind" ELSE "ok", a |-> r.a, val |-> r.val]

ary_new == rb_ary_new

\* n is a usize, cast to c_long
ary_new_capa(n) == unprotected(rb_ary_new_capa(AsI64(AsU64(n))))

\* a copy that never shares: every element is copied into a new array
dup_by_copy(a, rs, r) ==
    [src |-> a, rs |-> rs, new |-> rb_ary_new_from_values(RARRAY(a, rs))]

\* a copy made by a foreign call that lets the copy share the buffer
dup(a, rs, r) == rb_ary_subseq(a, rs, r, 0, I64Max)

len(a, rs) == RARRAY_LEN(a, rs)

includes(a, rs, val) == unprotected(rb_ary_includes(a, rs, into_value(val)))

cat(a, rs, s) == protect(rb_ary_cat(a, rs, s))

concat(a, rs, other) == protect(rb_ary_concat(a, rs, RARRAY(other, rs)))

plus(a, rs, other) ==
    unprotected(rb_ary_plus(RARRAY(a, rs), RARRAY(other, rs)))

push(a, rs, item) == protect(rb_ary_push(a, rs, into_value(item)))

\* pop, shift and delete_at convert the returned Value to the caller's T;
\* T is Value here, a conversion that cannot fail
pop(a, rs) == protect(rb_ary_pop(a, rs))

unshift(a, rs, item) == protect(rb_ary_unshift(a, rs, into_value(item)))

shift(a, rs) == protect(rb_ary_shift(a, rs))

delete(a, rs, item) == protect(rb_ary_delete(a, rs, into_value(item)))

delete_at(a, rs, index) == protect(rb_ary_delete_at(a, rs, index))

clear(a) == protect(rb_ary_clear(a))

resize(a, rs, l) == protect(rb_ary_resize(a, rs, l))

reverse(a, rs) == protect(rb_ary_reverse(a, rs))

rotate(a, rs, rot) == protect(rb_ary_rotate(a, rs, rot))

sort(a, rs) == protect(rb_ary_sort_bang(a, rs))

store(a, rs, offset, val) ==
    protect(rb_ary_store(a, rs, offset, into_value(val)))

is_shared(a, other) == rb_ary_shared_with_p(a, other)

\* self.replace(from) for two different objects; a replace of an array by
\* itself does the frozen check and nothing else
replace(a, from, rs, r) ==
    LET p == rb_ary_replace(a, from, rs, r)
    IN  [res |-> IF p.raised THEN "err" ELSE "ok",
         a |-> p.copy, from |-> p.orig, rs |-> p.rs]

replace_self(a) ==
    protect(IF rb_ary_modify_check(a) THEN Raised(a) ELSE Returned(a, QNIL))

-----------------------------------------------------------------------------
(* Operations on the arrays held through the handles *)

\* the least root id that no array other than that of handle g names
FreeRoot(g) ==
    CHOOSE r \in RootIds :
        /\ \A h \in Handles \ {g} : arr[h].root # r
        /\ \A q \in RootIds :
               q < r => \E h \in Handles \ {g} : arr[h].root = q

ViewOff(a) == IF a.shared THEN a.off ELSE 0

ViewEnd(a) == IF a.shared THEN a.off + a.n ELSE Len(a.elts)

Min2(x, y) == IF x <= y THEN x ELSE y

Max2(x, y) == IF x >= y THEN x ELSE y

\* array a after its root was renumbered id and lost its first lo slots
Moved(a, id, lo) ==
    IF a.root = 0 THEN a
    ELSE [a EXCEPT !.root = id, !.off = IF a.shared THEN a.off - lo ELSE 0]

\* the collector: a root that no array names is freed, and so are the
\* slots of a root that no array reaches; the roots left are numbered in
\* the order of the handles that name them
Collect(ar, rs) ==
    LET a == ar[HandleSeq[1]]
        b == ar[HandleSeq[2]]
        same == a.root # 0 /\ a.root = b.root
        loA == IF same THEN Min2(ViewOff(a), ViewOff(b)) ELSE ViewOff(a)
        hiA == IF same THEN Max2(ViewEnd(a), ViewEnd(b)) ELSE ViewEnd(a)
        loB == IF same THEN loA ELSE ViewOff(b)
        hiB == IF same THEN hiA ELSE ViewEnd(b)
        idB == IF same \/ a.root = 0 THEN 1 ELSE 2
    IN  IF a.root = 0 /\ b.root = 0
        THEN [arr |-> ar, roots |-> NoRoots]
        ELSE [arr |-> [h \in Handles |->
                        IF h = HandleSeq[1] THEN Moved(a, 1, loA)
                        ELSE Moved(b, idB, loB)],
              roots |-> [k \in RootIds |->
                          IF k = 1 /\ a.root # 0
                          THEN SubSeq(rs[a.root], loA + 1, hiA)
                          ELSE IF k = idB /\ b.root # 0
                          THEN SubSeq(rs[b.root], loB + 1, hiB)
                          ELSE <<>>]]

Elements(h) == RARRAY(arr[h], roots)

\* what the last call returned: "ok", "err" (Result::Err) or "unwind"
ALast(res) == [res |-> res]

\* the arguments the operations are called with
StoreOffsets == {0 - MaxLen - 1, 0 - 1, 0, MaxLen - 1}

DeleteAtIndexes == {0 - MaxLen - 1, 0 - 1, 0, 1, MaxLen}

ResizeLens == 0 .. MaxLen

RotateCounts == (0 - 1) .. 1

CapaArgs == {0, MaxLen, ARY_MAX_SIZE + 1, I64Max + 1}

CatSlices == {<<>>} \cup {<<into_value(x)>> : x \in items}

AryInit(hs, its) ==
    /\ arr = [h \in Handles |-> rb_ary_new]
    /\ roots = NoRoots
    /\ alast = ALast("ok")
    /\ handles = hs
    /\ items = its

AryIdle == AryInit({}, {})

\* handle h now holds r.a, the outcome of an operation on its array
Effect(h, r) ==
    \E out \in {r} :
        /\ Len(RARRAY(out.a, roots)) <= MaxLen
        /\ \E ar \in {[arr EXCEPT ![h] = out.a]} :
               \E c \in {Collect(ar, roots)} :
                   arr' = c.arr /\ roots' = c.roots
        /\ alast' = ALast(out.res)
        /\ UNCHANGED <<handles, items, intVars, iterVars, extVars>>

\* an operation of RArray: the handle types are as they were
Apply(h, r) == Effect(h, r) /\ UNCHANGED tyVars

AryNew(h) ==
    Apply(h, [res |-> "ok", a |-> ary_new])

\* on success the handle holds the new array; an unwinding call leaves the
\* handle as it was
AryNewCapa(h, n) ==
    LET r == ary_new_capa(n)
    IN  Apply(h, IF r.res = "ok" THEN r ELSE [r EXCEPT !.a = arr[h]])

Freeze(h) ==
    /\ ~arr[h].frozen
    /\ Apply(h, [res |-> "ok", a |-> rb_obj_freeze(arr[h])])

Push(h, x) ==
    Apply(h, push(arr[h], roots, x))

Pop(h) == Apply(h, pop(arr[h], roots))

Unshift(h, x) ==
    Apply(h, unshift(arr[h], roots, x))

Shift(h) == Apply(h, shift(arr[h], roots))

Delete(h, x) ==
    Apply(h, delete(arr[h], roots, x))

DeleteAt(h, k) ==
    Apply(h, delete_at(arr[h], roots, k))

Clear(h) == Apply(h, clear(arr[h]))

Resize(h, l) ==
    Apply(h, resize(arr[h], roots, l))

Reverse(h) == Apply(h, reverse(arr[h], roots))

Rotate(h, c) ==
    Apply(h, rotate(arr[h], roots, c))

Sort(h) == Apply(h, sort(arr[h], roots))

Store(h, k, x) ==
    Apply(h, store(arr[h], roots, k, x))

Cat(h, s) ==
    Apply(h, cat(arr[h], roots, s))

Concat(h, g) ==
    Apply(h, concat(arr[h], roots, arr[g]))

Includes(h, x) ==
    Apply(h, includes(arr[h], roots, x))

\* handle d := arr[h].plus(arr[g]); an unwinding call leaves d as it was
Plus(h, g, d) ==
    LET r == plus(arr[h], roots, arr[g])
    IN  Apply(d, IF r.res = "ok" THEN r ELSE [r EXCEPT !.a = arr[d]])

\* handle g := arr[h].dup(); the foreign call may turn the source into a
\* view of a new shared root
DupEffect(h, g) ==
    LET d == dup(arr[h], roots, FreeRoot(g))
        c == Collect([arr EXCEPT ![h] = d.src, ![g] = d.new], d.rs)
    IN  /\ arr' = c.arr
        /\ roots' = c.roots
        /\ alast' = ALast("ok")
        /\ UNCHANGED <<handles, items, intVars, iterVars, extVars>>

Dup(h, g) == DupEffect(h, g) /\ UNCHANGED tyVars

\* arr[h].replace(arr[g])
ReplaceEffect(h, g) ==
    IF h = g
    THEN Effect(h, replace_self(arr[h]))
    ELSE LET p == replace(arr[h], arr[g], roots, FreeRoot(h))
             c == Collect([arr EXCEPT ![g] = p.from, ![h] = p.a], p.rs)
         IN  /\ arr' = c.arr
             /\ roots' = c.roots
             /\ alast' = ALast(p.res)
             /\ UNCHANGED <<handles, items, intVars, iterVars, extVars>>

Replace(h, g) == ReplaceEffect(h, g) /\ UNCHANGED tyVars

AryNext ==
    \/ \E h \in handles : AryNew(h)
    \/ \E h \in handles, n \in CapaArgs : AryNewCapa(h, n)
    \/ \E h \in handles : Freeze(h)
    \/ \E h \in handles, x \in items : Push(h, x)
    \/ \E h \in handles : Pop(h)
    \/ \E h \in handles, x \in items : Unshift(h, x)
    \/ \E h \in handles : Shift(h)
    \/ \E h \in handles, x \in items : Delete(h, x)
    \/ \E h \in handles, k \in DeleteAtIndexes : DeleteAt(h, k)
    \/ \E h \in handles : Clear(h)
    \/ \E h \in handles, l \in ResizeLens : Resize(h, l)
    \/ \E h \in handles : Reverse(h)
    \/ \E h \in handles, c \in RotateCounts : Rotate(h, c)
    \/ \E h \in handles : Sort(h)
    \/ \E h \in handles, k \in StoreOffsets, x \in items : Store(h, k, x)
    \/ \E h \in handles, s \in CatSlices : Cat(h, s)
    \/ \E h \in handles, g \in handles : Concat(h, g)
    \/ \E h \in handles, x \in items : Includes(h, x)
    \/ \E h \in handles, g \in handles, d \in handles : Plus(h, g, d)
    \/ \E h \in handles, g \in handles : Dup(h, g)
    \/ \E h \in handles, g \in handles : Replace(h, g)

-----------------------------------------------------------------------------
(* Ruby::ary_try_from_iter and Ruby::ary_from_iter *)

\* the iterators of the model yield at most MaxIter results
MaxIter == 300

\* length of the native buffer
BufferLen == 128

\* the lower bounds size_hint reports; the iterator yields at least as
\* many results
HintLowers == {0, 1}

\* a result the iterator yields: the k-th is Ok(item k) or Err(error k)
ItemOk(k) == [ok |-> TRUE, v |-> k]

ItemErr(k) == [ok |-> FALSE, v |-> k]

\* Result<RArray, E>
RetOk(a) == [tag |-> "ok", ary |-> a]

RetErr(e) == [tag |-> "err", e |-> e]

RetNone == [tag |-> "none"]

\* [qnil; 128]
NewBuffer == [k \in 1 .. BufferLen |-> QNIL]

\* the ? operator on a yielded result: the item goes on, the error returns
try_item_unwrap_or(r) == [cont |-> TRUE, v |-> r.v]

try_item(r) ==
    IF r.ok THEN [cont |-> TRUE, v |-> r.v] ELSE [cont |-> FALSE, v |-> r.v]

\* &buffer[..i]
final_batch_whole(b, k) == b

final_batch(b, k) == SubSeq(b, 1, k)

buffer_full_each_item(k) == k >= 1

\* i >= buffer.len()
buffer_full(k) == k >= BufferLen

IterInit ==
    /\ ipc = "start"
    /\ ilower \in HintLowers
    /\ ifallible \in BOOLEAN
    /\ buf = <<>>
    /\ bi = 0
    /\ iary = rb_ary_new
    /\ pulled = <<>>
    /\ iret = RetNone
    /\ icats = <<>>

\* up to the loop: the array is allocated from the size hint and the buffer
\* is filled with nil
IterBegin ==
    /\ ipc = "start"
    /\ LET made == IF ilower > 0 THEN ary_new_capa(ilower)
                   ELSE [res |-> "ok", a |-> ary_new]
       IN  /\ iary' = made.a
           /\ ipc' = IF made.res = "ok" THEN "loop" ELSE "unwound"
    /\ buf' = NewBuffer
    /\ bi' = 0
    /\ UNCHANGED <<ilower, ifallible, pulled, iret, icats, intVars, aryVars, tyVars, extVars>>

\* one turn of the loop: the iterator yields r; an error returns at once,
\* an item is stored in the buffer, and a full buffer is appended to the
\* array.  ary_from_iter wraps every item in Ok.
IterNext ==
    /\ ipc = "loop"
    /\ Len(pulled) < MaxIter
    /\ \E r \in {ItemOk(Len(pulled) + 1)} \cup
                (IF ifallible THEN {ItemErr(Len(pulled) + 1)} ELSE {}) :
         /\ pulled' = Append(pulled, r)
         /\ IF try_item(r).cont
            THEN LET filled == [buf EXCEPT ![bi + 1] =
                                   into_value(NativeInt(try_item(r).v))]
                     flushed == cat(iary, NoRoots, filled)
                 IN  /\ buf' = filled
                     /\ IF buffer_full(bi + 1)
                        THEN /\ bi' = 0
                             /\ iary' = flushed.a
                             /\ icats' = Append(icats, Len(filled))
                             /\ ipc' = IF flushed.res = "ok" THEN "loop"
                                       ELSE "panicked"
                        ELSE /\ bi' = bi + 1
                             /\ UNCHANGED <<iary, icats, ipc>>
                     /\ UNCHANGED iret
            ELSE /\ iret' = RetErr(try_item(r).v)
                 /\ ipc' = "done"
                 /\ UNCHANGED <<buf, bi, iary, icats>>
    /\ UNCHANGED <<ilower, ifallible, intVars, aryVars, tyVars, extVars>>

\* the iterator is exhausted: what is left in the buffer is appended and
\* the array is returned
IterEnd ==
    /\ ipc = "loop"
    /\ Len(pulled) >= ilower
    /\ LET flushed == cat(iary, NoRoots, final_batch(buf, bi))
       IN  /\ iary' = flushed.a
           /\ icats' = Append(icats, Len(final_batch(buf, bi)))
           /\ IF flushed.res = "ok"
              THEN ipc' = "done" /\ iret' = RetOk(flushed.a)
              ELSE ipc' = "panicked" /\ UNCHANGED iret
    /\ UNCHANGED <<ilower, ifallible, buf, bi, pulled, intVars, aryVars, tyVars, extVars>>

IterStep ==
    \/ IterBegin
    \/ IterNext
    \/ IterEnd
-----------------------------------------------------------------------------
(* Classification and conversion of foreign values                         *)
(* (Integer::from_value, Integer::try_convert, RArray::from_value,         *)
(* RArray::try_convert, RArray::to_ary, RObject::from_value,               *)
(* RFile::from_value, debug_assert_value!)                                 *)
(*                                                                         *)
(* A foreign value is a record [t, n]: t names what the value is and n     *)
(* holds its number (integers, floats) or names how its implicit           *)
(* conversion methods behave (objects).                                    *)

\* a heap big integer
BigVal(k) == [t |-> "bignum", n |-> k]

\* a floating-point value whose integer part is k
FloatVal(k) == [t |-> "float", n |-> k]

\* NaN
FloatNan == [t |-> "float_nan", n |-> 0]

StringVal == [t |-> "string", n |-> 0]

ArrayVal == [t |-> "array", n |-> 0]

FileVal == [t |-> "file", n |-> 0]

\* an object whose to_int / to_ary return a value of the right type
ConvertingObj == [t |-> "object", n |-> 1]

\* an object whose to_int / to_ary return a string
MisconvertingObj == [t |-> "object", n |-> 2]

\* an object without to_int / to_ary
PlainObj == [t |-> "object", n |-> 3]

\* a typed-data object of class Thread
ThreadVal == [t |-> "data", n |-> 1]

\* a typed-data object of another class (a Proc)
ProcVal == [t |-> "data", n |-> 2]

\* what is left of a heap object that was freed, is awaiting its finalizer,
\* or was moved by compaction
FreedVal(t) == [t |-> t, n |-> 0]

FreedTypes == {"none", "zombie", "moved"}

\* the values of the model
LiveValues ==
    {FixVal(1), BigVal(I64Max), FloatVal(1), FloatNan, QNIL, StringVal,
     ArrayVal, FileVal, RaisingObj, ConvertingObj, MisconvertingObj, PlainObj,
     ThreadVal, ProcVal}

Values == LiveValues \cup {FreedVal(t) : t \in FreedTypes}

\* Value::rb_type: the ruby_value_type of a value, read from the immediate
\* bits or from the flags of the heap object
rb_type(v) ==
    CASE v.t = "fixnum" -> "RUBY_T_FIXNUM"
      [] v.t = "bignum" -> "RUBY_T_BIGNUM"
      [] v.t \in {"float", "float_nan"} -> "RUBY_T_FLOAT"
      [] v.t = "nil" -> "RUBY_T_NIL"
      [] v.t = "true" -> "RUBY_T_TRUE"
      [] v.t = "false" -> "RUBY_T_FALSE"
      [] v.t = "string" -> "RUBY_T_STRING"
      [] v.t = "array" -> "RUBY_T_ARRAY"
      [] v.t = "file" -> "RUBY_T_FILE"
      [] v.t = "object" -> "RUBY_T_OBJECT"
      [] v.t = "data" -> "RUBY_T_DATA"
      [] v.t = "none" -> "RUBY_T_NONE"
      [] v.t = "zombie" -> "RUBY_T_ZOMBIE"
      [] v.t = "moved" -> "RUBY_T_MOVED"

\* debug_assert_value!: in a debug build, TRUE when the macro panics
debug_assert_value(v, dbg) ==
    dbg /\ rb_type(v) \in {"RUBY_T_NONE", "RUBY_T_ZOMBIE", "RUBY_T_MOVED"}

\* the outcome of a classification or conversion: res is "some" / "none"
\* (Option), "ok" / "err" (Result), "panic" or "undefined"; v the value
\* returned; foreign tells whether foreign code was called
Outcome(res, v, foreign) == [res |-> res, v |-> v, foreign |-> foreign]

\* Integer::from_value
Integer_from_value(v, dbg) ==
    IF v.t = "fixnum" THEN Outcome("some", v, FALSE)
    ELSE IF debug_assert_value(v, dbg) THEN Outcome("panic", v, FALSE)
    ELSE IF rb_type(v) = "RUBY_T_BIGNUM" THEN Outcome("some", v, FALSE)
    ELSE Outcome("none", v, FALSE)

\* RArray::from_value
RArray_from_value(v) ==
    IF rb_type(v) = "RUBY_T_ARRAY" THEN Outcome("some", v, FALSE)
    ELSE Outcome("none", v, FALSE)

RObject_from_value_any_heap(v) ==
    IF rb_type(v) \in {"RUBY_T_OBJECT", "RUBY_T_DATA", "RUBY_T_ARRAY"}
    THEN Outcome("some", v, FALSE)
    ELSE Outcome("none", v, FALSE)

\* RObject::from_value
RObject_from_value(v) ==
    IF rb_type(v) = "RUBY_T_OBJECT" THEN Outcome("some", v, FALSE)
    ELSE Outcome("none", v, FALSE)

\* RFile::from_value
RFile_from_value(v) ==
    IF rb_type(v) = "RUBY_T_FILE" THEN Outcome("some", v, FALSE)
    ELSE Outcome("none", v, FALSE)

\* RTypedData::from_value: a T_DATA object with the typed-data flag
RTypedData_from_value(v) ==
    IF rb_type(v) = "RUBY_T_DATA" THEN Outcome("some", v, FALSE)
    ELSE Outcome("none", v, FALSE)

\* Value::is_kind_of(class_thread) (rb_obj_is_kind_of, which reads the class
\* chain and dispatches no method)
is_kind_of_thread(v) == v = ThreadVal

\* Thread::from_value
Thread_from_value(v) ==
    IF RTypedData_from_value(v).res = "some"
    THEN (IF is_kind_of_thread(v) THEN Outcome("some", v, TRUE)
          ELSE Outcome("none", v, TRUE))
    ELSE Outcome("none", v, FALSE)

\* the type queries Integer::from_value makes: none when the tag bit is set
Integer_from_value_queries(v) ==
    IF v.t = "fixnum" THEN <<>> ELSE <<"rb_type">>

\* the five discriminators applied to one value
Discriminators == {"Integer", "RArray", "RObject", "RFile", "Thread"}

from_value(v, dbg) ==
    [Integer |-> Integer_from_value(v, dbg),
     RArray |-> RArray_from_value(v),
     RObject |-> RObject_from_value(v),
     RFile |-> RFile_from_value(v),
     Thread |-> Thread_from_value(v),
     queries |-> Integer_from_value_queries(v)]

\* the result of a foreign conversion function: an exception, or a value
Raise == [raised |-> TRUE, v |-> QNIL]

Return(v) == [raised |-> FALSE, v |-> v]

\* CRuby rb_to_int: an Integer as it is; otherwise the result of the
\* value's to_int method, which must be an Integer.  Float#to_int truncates
\* and raises FloatDomainError for NaN; a value without to_int, or whose
\* to_int returns something else, raises TypeError.
rb_to_int(v) ==
    CASE v.t \in {"fixnum", "bignum"} -> Return(v)
      [] v.t = "float" -> Return(FixVal(v.n))
      [] v = ConvertingObj -> Return(FixVal(1))
      [] OTHER -> Raise

\* CRuby rb_check_array_type: an Array as it is; nil for a value without
\* to_ary; otherwise the result of to_ary, which must be an Array (or nil)
rb_check_array_type(v) ==
    CASE v.t = "array" -> Return(v)
      [] v = ConvertingObj -> Return(ArrayVal)
      [] v \in {RaisingObj, MisconvertingObj} -> Raise
      [] OTHER -> Return(QNIL)

\* CRuby rb_ary_to_ary: rb_check_array_type, and a one-element array of
\* the value when that gave nil
rb_ary_to_ary(v) ==
    IF rb_check_array_type(v).raised THEN Raise ELSE Return(ArrayVal)

\* protect around a conversion: an exception becomes Err
protect_value(r) ==
    IF r.raised THEN Outcome("err", r.v, TRUE) ELSE Outcome("ok", r.v, TRUE)

unprotected_value(r) ==
    IF r.raised THEN Outcome("unwind", r.v, TRUE) ELSE Outcome("ok", r.v, TRUE)

\* reading a freed object in a release build is undefined
UndefinedOutcome(v) == Outcome("undefined", v, TRUE)

Integer_try_convert_unprotected(v, dbg) ==
    CASE Integer_from_value(v, dbg).res = "some" -> Outcome("ok", v, FALSE)
      [] Integer_from_value(v, dbg).res = "panic" -> Outcome("panic", v, FALSE)
      [] v.t \in FreedTypes -> UndefinedOutcome(v)
      [] OTHER -> unprotected_value(rb_to_int(v))

\* impl TryConvert for Integer
Integer_try_convert(v, dbg) ==
    CASE Integer_from_value(v, dbg).res = "some" -> Outcome("ok", v, FALSE)
      [] Integer_from_value(v, dbg).res = "panic" -> Outcome("panic", v, FALSE)
      [] v.t \in FreedTypes -> UndefinedOutcome(v)
      [] OTHER -> protect_value(rb_to_int(v))

\* impl TryConvert for RArray
RArray_try_convert(v) ==
    CASE RArray_from_value(v).res = "some" -> Outcome("ok", v, FALSE)
      [] v.t \in FreedTypes -> UndefinedOutcome(v)
      [] OTHER ->
           LET res == protect_value(rb_check_array_type(v))
           IN  IF res.res = "ok" /\ RArray_from_value(res.v).res # "some"
               THEN Outcome("err", res.v, TRUE)
               ELSE res

\* RArray::to_ary
RArray_to_ary(v) ==
    IF v.t \in FreedTypes THEN UndefinedOutcome(v)
    ELSE protect_value(rb_ary_to_ary(v))

\* RArray::len / as_slice_unconstrained of a handle whose value is v
RArray_len(v, dbg) ==
    IF debug_assert_value(v, dbg) THEN Outcome("panic", v, FALSE)
    ELSE IF v.t \in FreedTypes THEN UndefinedOutcome(v)
    ELSE Outcome("ok", v, FALSE)

as_slice_unconstrained(v, dbg) ==
    IF debug_assert_value(v, dbg) THEN Outcome("panic", v, FALSE)
    ELSE IF v.t \in FreedTypes THEN UndefinedOutcome(v)
    ELSE Outcome("ok", v, FALSE)

-----------------------------------------------------------------------------
(* The conversions as a state machine: a build is chosen, then values are  *)
(* classified and converted one after another.                             *)

NoOutcome == Outcome("none", QNIL, FALSE)

ValInit ==
    /\ debug \in BOOLEAN
    /\ vin = QNIL
    /\ vop = "init"
    /\ vout = NoOutcome

ValIdle ==
    /\ debug = FALSE
    /\ vin = QNIL
    /\ vop = "idle"
    /\ vout = NoOutcome

\* what reading a freed object may give in a release build, where nothing
\* checks for it
UndefinedResults == {"some", "none", "ok", "err", "crash"}

\* operation op applied to value v gave outcome out; an undefined outcome
\* is any of UndefinedResults
Converted(op, v, out) ==
    /\ vop # "idle"
    /\ vin' = v
    /\ vop' = op
    /\ \E r \in (IF out.res = "undefined" THEN UndefinedResults ELSE {out.res}) :
           vout' = [out EXCEPT !.res = r]
    /\ UNCHANGED <<debug, intVars, aryVars, iterVars, tyVars, thrVars,
                 schedVars, viewVars>>

\* value v is given to every discriminator
Classify(v) ==
    /\ vop # "idle"
    /\ vin' = v
    /\ vop' = "classify"
    /\ vout' = from_value(v, debug)
    /\ UNCHANGED <<debug, intVars, aryVars, iterVars, tyVars, thrVars,
                 schedVars, viewVars>>

\* the values an RArray handle may point at: the array it was made for, or
\* what is left of it once freed or moved
HandleTargets == {ArrayVal} \cup {FreedVal(t) : t \in FreedTypes}

ValNext ==
    \/ \E v \in Values : Classify(v)
    \/ \E v \in Values :
          Converted("Integer::from_value", v, Integer_from_value(v, debug))
    \/ \E v \in Values :
          Converted("Integer::try_convert", v, Integer_try_convert(v, debug))
    \/ \E v \in Values :
          Converted("RArray::from_value", v, RArray_from_value(v))
    \/ \E v \in Values :
          Converted("RArray::try_convert", v, RArray_try_convert(v))
    \/ \E v \in Values :
          Converted("RArray::to_ary", v, RArray_to_ary(v))
    \/ \E v \in Values :
          Converted("RObject::from_value", v, RObject_from_value(v))
    \/ \E v \in Values :
          Converted("RFile::from_value", v, RFile_from_value(v))
    \/ \E v \in HandleTargets :
          Converted("RArray::len", v, RArray_len(v, debug))
    \/ \E v \in HandleTargets :
          Converted("RArray::as_slice", v, as_slice_unconstrained(v, debug))
-----------------------------------------------------------------------------
(* TypedArray<T> (src/src/r_array.rs), for T an integer type: the native   *)
(* side holds each array through an RArray handle, through a TypedArray    *)
(* handle, or no longer holds it (the handle was moved into a call).       *)

\* the class of an ordinary array, and the missing class of a hidden one
ArrayClass == "Array"

HiddenClass == "hidden"

\* CRuby rb_obj_hide / rb_obj_reveal
rb_obj_hide(k) == HiddenClass

rb_obj_reveal(k, c) == c

\* T::try_convert of an element, for T an integer type
T_try_convert(v) == Integer_try_convert(v, FALSE)

\* TRUE when every element of e converts to T
AllConvert(e) == \A i \in 1 .. Len(e) : T_try_convert(e[i]).res = "ok"

\* Ruby::typed_ary_new: rb_ary_hidden_new
typed_ary_new == [a |-> rb_ary_new, klass |-> HiddenClass]

typecheck_unchecked(a, rs, r) ==
    LET p == rb_ary_replace(rb_ary_new, a, rs, r)
    IN  [res |-> "ok", from |-> p.orig, rs |-> p.rs, a |-> p.copy,
         klass |-> HiddenClass]

\* RArray::typecheck: every element is converted, the first failure returns
\* Err; otherwise a new hidden array takes self's elements by rb_ary_replace
typecheck(a, rs, r) ==
    IF ~AllConvert(RARRAY(a, rs))
    THEN [res |-> "err", from |-> a, rs |-> rs, a |-> rb_ary_new,
          klass |-> HiddenClass]
    ELSE LET p == rb_ary_replace(rb_ary_new, a, rs, r)
         IN  [res |-> "ok", from |-> p.orig, rs |-> p.rs, a |-> p.copy,
              klass |-> HiddenClass]

\* RArray::subseq: None when the offset is past the end (or negative as a
\* c_long)
subseq(a, rs, r, offset, length) ==
    LET beg == AsI64(AsU64(offset))
        n == AsI64(AsU64(length))
    IN  IF beg < 0 \/ n < 0 \/ beg > RARRAY_LEN(a, rs)
        THEN [some |-> FALSE, src |-> a, rs |-> rs, new |-> rb_ary_new]
        ELSE [some |-> TRUE] @@ rb_ary_subseq(a, rs, r, beg, n)

typed_dup_visible(k) == k

\* the class TypedArray::dup / plus / subseq leave on the new array, made
\* by the foreign call with class k
typed_dup(k) == rb_obj_hide(k)

\* TypedArray::to_r_array
to_r_array(k) == rb_obj_reveal(k, ArrayClass)

\* TypedArray::to_vec: RArray::to_vec, unwrapped
to_vec(e) == IF AllConvert(e) THEN "ok" ELSE "panic"

TyInit ==
    /\ kind = [h \in Handles |-> "RArray"]
    /\ klass = [h \in Handles |-> ArrayClass]

\* handle h now holds an array through handle type k, with class c
Held(h, k, c) ==
    /\ kind' = [kind EXCEPT ![h] = k]
    /\ klass' = [klass EXCEPT ![h] = c]

\* handle g was moved into the call, and h is as it was
Consumed(g) ==
    /\ kind' = [kind EXCEPT ![g] = "moved"]
    /\ UNCHANGED klass

Typed == {h \in handles : kind[h] = "TypedArray"}

Untyped == {h \in handles : kind[h] = "RArray"}

\* the items a TypedArray<T> accepts
TypedItems == {x \in items : "i64" \in DOMAIN x}

TypedSlices == {<<>>} \cup {<<into_value(x)>> : x \in TypedItems}

SubseqArgs == {0, 1, MaxLen + 1}

\* h = ruby.ary_new()
NewRArray(h) ==
    /\ Effect(h, [res |-> "ok", a |-> ary_new])
    /\ Held(h, "RArray", ArrayClass)

\* h = ruby.typed_ary_new::<T>()
TypedAryNew(h) ==
    /\ Effect(h, [res |-> "ok", a |-> typed_ary_new.a])
    /\ Held(h, "TypedArray", typed_ary_new.klass)

\* g = h.typecheck::<T>()?
Typecheck(h, g) ==
    LET t == typecheck(arr[h], roots, FreeRoot(g))
        c == Collect([arr EXCEPT ![h] = t.from, ![g] = t.a], t.rs)
    IN  /\ alast' = ALast(t.res)
        /\ IF t.res = "ok"
           THEN /\ arr' = c.arr
                /\ roots' = c.roots
                /\ Held(g, "TypedArray", t.klass)
           ELSE UNCHANGED <<arr, roots, tyVars>>
        /\ UNCHANGED <<handles, items, intVars, iterVars, extVars>>

\* g = h.dup()
TypedDup(h, g) ==
    /\ DupEffect(h, g)
    /\ Held(g, "TypedArray", typed_dup(ArrayClass))

\* d = h.plus(g): g is moved into the call
TypedPlus(h, g, d) ==
    /\ plus(arr[h], roots, arr[g]).res = "ok"
    /\ Effect(d, plus(arr[h], roots, arr[g]))
    /\ kind' = [[kind EXCEPT ![g] = "moved"] EXCEPT ![d] = "TypedArray"]
    /\ klass' = [klass EXCEPT ![d] = typed_dup(ArrayClass)]

\* g = h.subseq(offset, length): None leaves g as it was
TypedSubseq(h, g, offset, length) ==
    LET s == subseq(arr[h], roots, FreeRoot(g), offset, length)
        c == Collect([arr EXCEPT ![h] = s.src, ![g] = s.new], s.rs)
    IN  /\ alast' = ALast(IF s.some THEN "ok" ELSE "none")
        /\ IF s.some
           THEN /\ arr' = c.arr
                /\ roots' = c.roots
                /\ Held(g, "TypedArray", typed_dup(ArrayClass))
           ELSE UNCHANGED <<arr, roots, tyVars>>
        /\ UNCHANGED <<handles, items, intVars, iterVars, extVars>>

\* h.concat(g): g is moved into the call
TypedConcat(h, g) ==
    /\ Effect(h, concat(arr[h], roots, arr[g]))
    /\ Consumed(g)

\* h.replace(g): g is moved into the call
TypedReplace(h, g) ==
    /\ ReplaceEffect(h, g)
    /\ Consumed(g)

\* h = h.to_r_array() (or into_value): the TypedArray is consumed and the
\* array is revealed
ToRArray(h) ==
    /\ Held(h, "RArray", to_r_array(klass[h]))
    /\ alast' = ALast("ok")
    /\ UNCHANGED <<arr, roots, handles, items, intVars, iterVars, extVars>>

\* h.to_vec()
ToVec(h) ==
    /\ alast' = ALast(to_vec(Elements(h)))
    /\ UNCHANGED <<arr, roots, handles, items, tyVars, intVars, iterVars, extVars>>

TypedNext ==
    \/ \E h \in handles : NewRArray(h)
    \/ \E h \in Untyped, x \in items : Push(h, x)
    \/ \E h \in Untyped : Freeze(h)
    \/ \E h \in handles : TypedAryNew(h)
    \/ \E h \in Untyped : \E g \in handles \ {h} : Typecheck(h, g)
    \/ \E h \in Typed, x \in TypedItems : Push(h, x)
    \/ \E h \in Typed, x \in TypedItems : Unshift(h, x)
    \/ \E h \in Typed, k \in StoreOffsets, x \in TypedItems : Store(h, k, x)
    \/ \E h \in Typed, s \in TypedSlices : Cat(h, s)
    \/ \E h \in Typed, l \in ResizeLens : Resize(h, l)
    \/ \E h \in Typed : Pop(h)
    \/ \E h \in Typed : Shift(h)
    \/ \E h \in Typed, x \in TypedItems : Delete(h, x)
    \/ \E h \in Typed, k \in DeleteAtIndexes : DeleteAt(h, k)
    \/ \E h \in Typed : Clear(h)
    \/ \E h \in Typed : \E g \in Typed \ {h} : TypedConcat(h, g)
    \/ \E h \in Typed : \E g \in Typed \ {h} : TypedReplace(h, g)
    \/ \E h \in Typed : \E g \in handles \ {h} : TypedDup(h, g)
    \/ \E h \in Typed : \E g \in Typed \ {h} : \E d \in handles :
          TypedPlus(h, g, d)
    \/ \E h \in Typed : \E g \in handles \ {h} :
          \E o \in SubseqArgs, l \in SubseqArgs : TypedSubseq(h, g, o, l)
    \/ \E h \in Typed : ToRArray(h)
    \/ \E h \in Typed : ToVec(h)
-----------------------------------------------------------------------------
(* A closure wrapped for a thread (src/src/thread.rs): wrap_closure boxes  *)
(* Closure(Option<F>, DataType) and hands the box to a class-less foreign  *)
(* object with a mark and a free function; thread_create_from_fn passes a  *)
(* pointer to the Option<F> to the thread body and keeps the object alive  *)
(* through an instance variable of the thread.  held tells what refers to  *)
(* the object: the frame of thread_create_from_fn (its local keepalive),   *)
(* the instance variable __rust_closure of the thread.                     *)

\* the most words a closure of the model captures
MaxCaptures == 3

\* a captured word is a Value, or anything else
WordKinds == {"value", "raw"}

\* the captured environment F, word by word
Environments ==
    UNION {[1 .. n -> WordKinds] : n \in 0 .. MaxCaptures}

\* size_of::<F>() / size_of::<Value>()
size_of_F(c) == Len(c.words)

\* the words of Option<F>: those of F when F has a niche for None, and
\* otherwise those of F and a discriminant word, which the compiler may
\* place before or after them
OptionWords(c) ==
    IF c.niche THEN c.words
    ELSE IF c.tag = "front" THEN <<"tag">> \o c.words
    ELSE c.words \o <<"tag">>

\* the captured Values of F, as positions in Option<F>
CapturedAt(c) ==
    {k \in 1 .. Len(OptionWords(c)) : OptionWords(c)[k] = "value"}

\* Closure::mark: the first size_of::<F>() / size_of::<Value>() words at
\* the address of the Option<F> go to mark_slice, which marks those that
\* are Values
mark(c) ==
    {k \in 1 .. size_of_F(c) : OptionWords(c)[k] = "value"}

call_read(s) == [panic |-> s # "Some", slot |-> s]

\* thread_create_from_fn::call: (*arg).take().unwrap()
call(s) == [panic |-> s # "Some", slot |-> "None"]

\* dropping the Box<Closure<F>>: the number of payloads dropped with it
drop_box(s) == IF s = "Some" THEN 1 ELSE 0

ivar_set_dropped(h) == h

\* t.ivar_set("__rust_closure", keepalive)
ivar_set(h) == h \cup {"ivar"}

\* the collector reaches the bridge object from the creating frame, which
\* it scans, or from the instance variable of a thread that is alive
Reachable(h, t) ==
    "frame" \in h \/ ("ivar" \in h /\ t \in {"created", "running"})

NoClosure == [words |-> <<>>, niche |-> FALSE, tag |-> "front"]

Unmarked == [done |-> FALSE, at |-> {}]

ThrInit ==
    /\ clo = NoClosure
    /\ slot = "None"
    /\ bridge = "unallocated"
    /\ thr = "none"
    /\ marked = Unmarked
    /\ drops = 0
    /\ invoked = 0
    /\ held = {}

ThrIdle ==
    /\ clo = NoClosure
    /\ slot = "None"
    /\ bridge = "idle"
    /\ thr = "none"
    /\ marked = Unmarked
    /\ drops = 0
    /\ invoked = 0
    /\ held = {}

\* wrap_closure(func), for a closure of any layout
WrapClosure ==
    /\ bridge = "unallocated"
    /\ \E w \in Environments, n \in BOOLEAN, t \in {"front", "back"} :
         /\ n => t = "front"
         /\ clo' = [words |-> w, niche |-> n, tag |-> t]
    /\ slot' = "Some"
    /\ bridge' = "live"
    /\ held' = {"frame"}
    /\ UNCHANGED <<thr, marked, drops, invoked, intVars, aryVars, iterVars,
                   tyVars, valVars, schedVars, viewVars>>

\* rb_thread_create under protect, unwrapped: the thread exists, or the
\* error is a panic, which unwinds the frame, and no thread was made
ThreadCreate ==
    /\ bridge = "live"
    /\ thr = "none"
    /\ thr' \in {"created", "failed"}
    /\ held' = IF thr' = "failed" THEN {} ELSE held
    /\ UNCHANGED <<clo, slot, bridge, marked, drops, invoked, intVars,
                   aryVars, iterVars, tyVars, valVars, schedVars, viewVars>>

\* t.ivar_set("__rust_closure", keepalive), and thread_create_from_fn
\* returns t: the frame is gone.  The new thread may have started, or
\* ended, before.
IvarSet ==
    /\ thr \notin {"none", "failed"}
    /\ "frame" \in held
    /\ held' = ivar_set(held) \ {"frame"}
    /\ UNCHANGED <<clo, slot, bridge, thr, marked, drops, invoked, intVars,
                   aryVars, iterVars, tyVars, valVars, schedVars, viewVars>>

\* the thread body starts: the closure is taken out of its slot and called
ThreadRun ==
    /\ thr = "created"
    /\ slot' = call(slot).slot
    /\ IF call(slot).panic \/ bridge # "live"
       THEN thr' = "crashed" /\ UNCHANGED invoked
       ELSE thr' = "running" /\ invoked' = invoked + 1
    /\ UNCHANGED <<held, clo, bridge, marked, drops, intVars, aryVars, iterVars,
                   tyVars, valVars, schedVars, viewVars>>

\* the closure returns: the call consumed it
ThreadFinish ==
    /\ thr = "running"
    /\ thr' = "finished"
    /\ drops' = drops + 1
    /\ UNCHANGED <<held, clo, slot, bridge, marked, invoked, intVars, aryVars,
                   iterVars, tyVars, valVars, schedVars, viewVars>>

\* Thread::kill: a thread that has not started never runs its body; a
\* running one has the kill surface as an error in the closure, which
\* returns and is consumed
ThreadKill ==
    /\ thr \in {"created", "running"}
    /\ thr' = "killed"
    /\ drops' = IF thr = "running" THEN drops + 1 ELSE drops
    /\ UNCHANGED <<held, clo, slot, bridge, marked, invoked, intVars, aryVars,
                   iterVars, tyVars, valVars, schedVars, viewVars>>

\* the collector's mark phase reaches the bridge object
GcMark ==
    /\ bridge = "live"
    /\ marked' = [done |-> TRUE, at |-> mark(clo)]
    /\ UNCHANGED <<held, clo, slot, bridge, thr, drops, invoked, intVars, aryVars,
                   iterVars, tyVars, valVars, schedVars, viewVars>>

\* the bridge object is collected once nothing refers to it (the frame is
\* gone and the thread that held it is gone, or was never made) and its
\* free function drops the box
GcFree ==
    /\ bridge = "live"
    /\ ~Reachable(held, thr)
    /\ bridge' = "freed"
    /\ drops' = drops + drop_box(slot)
    /\ slot' = "None"
    /\ marked' = Unmarked
    /\ UNCHANGED <<held, clo, thr, invoked, intVars, aryVars, iterVars, tyVars,
                   valVars, schedVars, viewVars>>

ThrNext ==
    \/ WrapClosure
    \/ ThreadCreate
    \/ IvarSet
    \/ ThreadRun
    \/ ThreadFinish
    \/ ThreadKill
    \/ GcMark
    \/ GcFree
-----------------------------------------------------------------------------
(* Threads that stop and are woken, src/src/thread.rs (thread_stop,        *)
(* thread_sleep_forever, rb_thread_sleep_deadly, Thread::wakeup)           *)
(*                                                                         *)
(* tstat[t] is the state of thread t: Dead (not created, or finished),     *)
(* Runnable, or asleep, with the call that put it to sleep and whether the *)
(* foreign deadlock checker counts it as a sleeper.  tret[t] is what the   *)
(* last blocking call of t returned.                                       *)

Threads == {"main", "t1", "t2"}

Dead == [st |-> "dead", by |-> "", deadlockable |-> FALSE]

Runnable == [st |-> "runnable", by |-> "", deadlockable |-> FALSE]

\* a thread blocked in the call `by`
Asleep(by, deadlockable) ==
    [st |-> "asleep", by |-> by, deadlockable |-> deadlockable]

\* CRuby rb_thread_sleep_forever: sleeps until woken; not a sleeper for the
\* deadlock checker
rb_thread_sleep_forever(by) == Asleep(by, FALSE)

\* CRuby rb_thread_sleep_deadly: sleeps until woken; a sleeper for the
\* deadlock checker
rb_thread_sleep_deadly(by) == Asleep(by, TRUE)

\* Ruby::thread_sleep_forever
thread_sleep_forever == rb_thread_sleep_forever("thread_sleep_forever")

\* Ruby::rb_thread_sleep_deadly
thread_sleep_deadly == rb_thread_sleep_deadly("rb_thread_sleep_deadly")

\* Ruby::thread_stop
thread_stop == rb_thread_sleep_forever("thread_stop")

Sleeping(s) == s.st = "asleep"

Living(st) == {t \in Threads : st[t] # Dead}

\* CRuby rb_check_deadlock: TRUE when every living thread is a sleeper
Deadlocked(st) ==
    \A t \in Living(st) : Sleeping(st[t]) /\ st[t].deadlockable

\* rb_check_deadlock, run when a thread goes to sleep or finishes: on a
\* deadlock the main thread is woken by a fatal error, which protect turns
\* into Err
rb_check_deadlock(st, rt) ==
    IF Deadlocked(st)
    THEN [st |-> [st EXCEPT !["main"] = Runnable],
          rt |-> [rt EXCEPT !["main"] = "err"]]
    ELSE [st |-> st, rt |-> rt]

SchedInit ==
    /\ tstat = [t \in Threads |-> IF t = "main" THEN Runnable ELSE Dead]
    /\ tret = [t \in Threads |-> "none"]

SchedIdle ==
    /\ tstat = [t \in Threads |-> Dead]
    /\ tret = [t \in Threads |-> "none"]

SchedUnchanged ==
    UNCHANGED <<intVars, aryVars, iterVars, tyVars, valVars, thrVars,
                viewVars>>

\* thread u creates thread t (Ruby::thread_create)
ThreadSpawn(u, t) ==
    /\ tstat[u] = Runnable
    /\ tstat[t] = Dead
    /\ tstat' = [tstat EXCEPT ![t] = Runnable]
    /\ tret' = [tret EXCEPT ![t] = "none"]
    /\ SchedUnchanged

\* thread t blocks in one of the calls thread_stop, thread_sleep_forever and
\* rb_thread_sleep_deadly
Block(t, sleep) ==
    /\ tstat[t] = Runnable
    /\ LET st == [tstat EXCEPT ![t] = sleep]
           rt == [tret EXCEPT ![t] = "blocked"]
       IN  /\ tstat' = rb_check_deadlock(st, rt).st
           /\ tret' = rb_check_deadlock(st, rt).rt
    /\ SchedUnchanged

ThreadStop(t) == Block(t, thread_stop)

ThreadSleepForever(t) == Block(t, thread_sleep_forever)

ThreadSleepDeadly(t) == Block(t, thread_sleep_deadly)

\* thread u calls t.wakeup(): a sleeping t becomes runnable and its blocking
\* call returns Ok; Err (ThreadError) for a dead t
Wakeup(u, t) ==
    /\ tstat[u] = Runnable
    /\ tstat[t] # Dead
    /\ tstat' = [tstat EXCEPT ![t] = Runnable]
    /\ tret' = [tret EXCEPT ![t] = IF Sleeping(tstat[t]) THEN "ok" ELSE @]
    /\ SchedUnchanged

\* a signal arrives while the main thread sleeps: the sleep is interrupted
\* by an exception, which protect turns into Err
Signal ==
    /\ Sleeping(tstat["main"])
    /\ tstat' = [tstat EXCEPT !["main"] = Runnable]
    /\ tret' = [tret EXCEPT !["main"] = "err"]
    /\ SchedUnchanged

\* a thread other than the main thread finishes
ThreadExit(t) ==
    /\ t # "main"
    /\ tstat[t] = Runnable
    /\ LET st == [tstat EXCEPT ![t] = Dead]
       IN  /\ tstat' = rb_check_deadlock(st, tret).st
           /\ tret' = rb_check_deadlock(st, tret).rt
    /\ SchedUnchanged

SchedNext ==
    \/ \E u \in Threads : \E t \in Threads \ {u} : ThreadSpawn(u, t)
    \/ \E t \in Threads : ThreadStop(t)
    \/ \E t \in Threads : ThreadSleepForever(t)
    \/ \E t \in Threads : ThreadSleepDeadly(t)
    \/ \E u \in Threads : \E t \in Threads \ {u} : Wakeup(u, t)
    \/ Signal
    \/ \E t \in Threads : ThreadExit(t)

-----------------------------------------------------------------------------
(* The borrowed view of an array's storage and the library's users of it,  *)
(* src/src/r_array.rs (as_slice, to_vec, to_value_array, to_array)         *)
(*                                                                         *)
(* vstore is the array: the address of its storage and its elements.  view *)
(* is the slice made by as_slice: the address and length it was made with, *)
(* the position of the iterator over it, the elements converted so far,    *)
(* and the number of foreign calls made while it was alive.                *)

\* the elements of the viewed array: an integer, an object with a to_int
\* method, a string
ViewElements == {FixVal(1), ConvertingObj, StringVal}

\* the arrays of at most MaxLen elements
ViewArrays ==
    UNION {[1 .. n -> ViewElements] : n \in 0 .. MaxLen}

\* the N of to_array::<T, N> / to_value_array::<N>
ViewLens == 0 .. MaxLen

NoView ==
    [alive |-> FALSE, op |-> "none", ptr |-> 0, len |-> 0, pos |-> 0,
     out |-> <<>>, foreign |-> 0, res |-> "none"]

\* as_slice_unconstrained: slice::from_raw_parts(RARRAY_CONST_PTR, RARRAY_LEN)
as_slice(op, s) ==
    [alive |-> TRUE, op |-> op, ptr |-> s.ptr, len |-> Len(s.elts), pos |-> 0,
     out |-> <<>>, foreign |-> 0, res |-> "none"]

\* the view ends and the call returns res
Closed(v, res) == [v EXCEPT !.alive = FALSE, !.res = res]

\* TRUE while the slice still describes the array's storage
ViewValid(v, s) == v.ptr = s.ptr /\ v.len = Len(s.elts)

\* what foreign code (a to_int method) can do to the array while it runs:
\* nothing, store another element, clear it (the storage stays), or grow it
\* (the storage moves)
ForeignEffects(s) ==
    {s}
    \cup {[s EXCEPT !.elts = [@ EXCEPT ![k] = StringVal]] : k \in 1 .. Len(s.elts)}
    \cup {[s EXCEPT !.elts = <<>>]}
    \cup {[ptr |-> s.ptr + 1, elts |-> Append(s.elts, FixVal(1))]}

\* the element the iterator reads at position pos: the array's element while
\* the view is valid; anything, or a crash, once the storage moved or shrank
ViewRead(v, s) ==
    IF v.ptr = s.ptr /\ v.pos < Len(s.elts)
    THEN {s.elts[v.pos + 1]}
    ELSE ViewElements \cup {FreedVal("none")}

ViewInit ==
    /\ vstore \in {[ptr |-> 1, elts |-> e] : e \in ViewArrays}
    /\ view = NoView

ViewIdle ==
    /\ vstore = [ptr |-> 1, elts |-> <<>>]
    /\ view = NoView

ViewUnchanged ==
    UNCHANGED <<intVars, aryVars, iterVars, tyVars, valVars, thrVars,
                schedVars>>

\* RArray::to_value_array::<N>: the slice is copied by try_into
ToValueArray(n) ==
    /\ ~view.alive /\ view.op = "none"
    /\ view' = Closed([as_slice("to_value_array", vstore) EXCEPT
                          !.out = IF Len(vstore.elts) = n THEN vstore.elts ELSE <<>>],
                      IF Len(vstore.elts) = n THEN "ok" ELSE "err")
    /\ UNCHANGED vstore
    /\ ViewUnchanged

\* RArray::to_vec: as_slice().iter()
ToVecBegin ==
    /\ ~view.alive /\ view.op = "none"
    /\ view' = as_slice("to_vec", vstore)
    /\ UNCHANGED vstore
    /\ ViewUnchanged

\* RArray::to_array::<T, N>: as_slice(), the length test, then iter()
ToArrayBegin(n) ==
    /\ ~view.alive /\ view.op = "none"
    /\ view' = IF Len(vstore.elts) # n
               THEN Closed(as_slice("to_array", vstore), "err")
               ELSE as_slice("to_array", vstore)
    /\ UNCHANGED vstore
    /\ ViewUnchanged

\* one step of .map(T::try_convert).collect(): the next element is read
\* through the slice and converted; a conversion that calls foreign code
\* lets that code do anything to the array; the first Err ends the call
ViewConvert ==
    /\ view.alive
    /\ view.pos < view.len
    /\ \E e \in ViewRead(view, vstore) :
         LET r == T_try_convert(e)
         IN  /\ \E s \in (IF r.foreign THEN ForeignEffects(vstore) ELSE {vstore}) :
                    vstore' = s
             /\ view' =
                  IF r.res = "ok"
                  THEN [view EXCEPT !.pos = @ + 1,
                                    !.out = Append(@, r.v),
                                    !.foreign = @ + (IF r.foreign THEN 1 ELSE 0)]
                  ELSE Closed([view EXCEPT !.foreign = @ + (IF r.foreign THEN 1 ELSE 0)],
                              IF r.res = "err" THEN "err" ELSE "undefined")
    /\ ViewUnchanged

\* the iterator is exhausted: Ok(vec)
ViewCollect ==
    /\ view.alive
    /\ view.pos = view.len
    /\ view' = Closed(view, "ok")
    /\ UNCHANGED vstore
    /\ ViewUnchanged

ViewNext ==
    \/ \E n \in ViewLens : ToValueArray(n)
    \/ ToVecBegin
    \/ \E n \in ViewLens : ToArrayBegin(n)
    \/ ViewConvert
    \/ ViewCollect

-----------------------------------------------------------------------------
(* pop, shift and delete_at with the conversion of the removed element to  *)
(* the caller's T, src/src/r_array.rs                                      *)

\* the target types of the model: Value (the conversion cannot fail), i64,
\* Option<i64>
TakeTypes == {"Value", "i64", "Option<i64>"}

\* Result<T, Error> of a conversion: res is "ok" or "err"; some is FALSE for
\* Ok(None)
Taken(res, v, some) == [res |-> res, v |-> v, some |-> some]

\* T::try_convert(v): Value is v itself; i64 is the integer conversion;
\* Option<T> is None for nil and T::try_convert otherwise
try_convert(t, v) ==
    CASE t = "Value" -> Taken("ok", v, TRUE)
      [] t = "Option<i64>" /\ v = QNIL -> Taken("ok", v, FALSE)
      [] OTHER ->
           IF T_try_convert(v).res = "ok"
           THEN Taken("ok", T_try_convert(v).v, TRUE)
           ELSE Taken("err", v, FALSE)

\* Result::and_then(TryConvert::try_convert) after protect: the array is as
\* the foreign call left it
and_then_try_convert(r, t) ==
    IF r.res # "ok" THEN [res |-> r.res, a |-> r.a, val |-> r.val, some |-> FALSE]
    ELSE [res |-> try_convert(t, r.val).res, a |-> r.a,
          val |-> try_convert(t, r.val).v, some |-> try_convert(t, r.val).some]

pop_convert_first(a, rs, t) ==
    IF protect(rb_ary_pop(a, rs)).res = "ok"
       /\ try_convert(t, protect(rb_ary_pop(a, rs)).val).res = "err"
    THEN [res |-> "err", a |-> a, val |-> QNIL, some |-> FALSE]
    ELSE and_then_try_convert(protect(rb_ary_pop(a, rs)), t)

\* RArray::pop::<T>
pop_as(a, rs, t) == and_then_try_convert(protect(rb_ary_pop(a, rs)), t)

\* RArray::shift::<T>
shift_as(a, rs, t) == and_then_try_convert(protect(rb_ary_shift(a, rs)), t)

\* RArray::delete_at::<T>
delete_at_as(a, rs, index, t) ==
    and_then_try_convert(protect(rb_ary_delete_at(a, rs, index)), t)

\* what the last call returned, for a call that converts what it removed:
\* the call, its target type and index, the elements before it, and the
\* converted value
TakeLast(op, t, index, before, r) ==
    [res |-> r.res, op |-> op, target |-> t, index |-> index,
     before |-> before, val |-> r.val, some |-> r.some]

\* handle h now holds r.a, the outcome of a call that converted what it
\* removed
TakeEffect(h, op, t, index, r) ==
    /\ \E ar \in {[arr EXCEPT ![h] = r.a]} :
           \E c \in {Collect(ar, roots)} :
               arr' = c.arr /\ roots' = c.roots
    /\ alast' = TakeLast(op, t, index, Elements(h), r)
    /\ UNCHANGED <<handles, items, intVars, iterVars, tyVars, extVars>>

PopAs(h, t) == TakeEffect(h, "pop", t, 0, pop_as(arr[h], roots, t))

ShiftAs(h, t) == TakeEffect(h, "shift", t, 0, shift_as(arr[h], roots, t))

DeleteAtAs(h, k, t) ==
    TakeEffect(h, "delete_at", t, k, delete_at_as(arr[h], roots, k, t))

TakeNext ==
    \/ \E h \in handles, x \in items : Push(h, x)
    \/ \E h \in handles : Freeze(h)
    \/ \E h \in handles, t \in TakeTypes : PopAs(h, t)
    \/ \E h \in handles, t \in TakeTypes : ShiftAs(h, t)
    \/ \E h \in handles, k \in DeleteAtIndexes, t \in TakeTypes :
          DeleteAtAs(h, k, t)


-----------------------------------------------------------------------------
(* Specifications *)

IterIdle ==
    /\ ipc = "idle" /\ ilower = 0 /\ ifallible = FALSE
    /\ buf = <<>> /\ bi = 0 /\ iary = rb_ary_new
    /\ pulled = <<>> /\ iret = [tag |-> "none"] /\ icats = <<>>

\* the Integer operations
InitInteger == IntInit /\ AryIdle /\ IterIdle /\ TyInit /\ ValIdle /\ ThrIdle /\ SchedIdle /\ ViewIdle

SpecInteger == InitInteger /\ [][IntNext]_vars

\* the conversions between Integer and the native integer types
SpecConvert == InitInteger /\ [][ConvNext]_vars

\* two arrays of integers that can share storage
InitCow ==
    /\ IntInit /\ AryInit(Handles, {NativeInt(1)}) /\ IterIdle
    /\ TyInit /\ ValIdle /\ ThrIdle /\ SchedIdle /\ ViewIdle

SpecCow == InitCow /\ [][AryNext]_vars

\* one array of integers and of an object whose == raises
InitArray ==
    /\ IntInit
    /\ AryInit({"A"}, {NativeInt(1), NativeInt(2), NativeValue(RaisingObj)})
    /\ IterIdle
    /\ TyInit /\ ValIdle /\ ThrIdle /\ SchedIdle /\ ViewIdle

SpecArray == InitArray /\ [][AryNext]_vars

\* an array built from an iterator
InitIter == IntInit /\ AryIdle /\ IterInit /\ TyInit /\ ValIdle /\ ThrIdle /\ SchedIdle /\ ViewIdle

SpecIter == InitIter /\ [][IterStep]_vars

\* conversions of foreign values, in a debug or a release build
InitValue == IntInit /\ AryIdle /\ IterIdle /\ TyInit /\ ValInit /\ ThrIdle /\ SchedIdle /\ ViewIdle

SpecValue == InitValue /\ [][ValNext]_vars

\* two handles, RArray or TypedArray, on arrays of integers and nil
InitTyped ==
    /\ IntInit
    /\ AryInit(Handles, {NativeInt(1), NativeValue(QNIL)})
    /\ IterIdle
    /\ TyInit /\ ValIdle /\ ThrIdle /\ SchedIdle /\ ViewIdle

SpecTyped == InitTyped /\ [][TypedNext]_vars

\* a closure wrapped for a thread
InitThread ==
    /\ IntInit /\ AryIdle /\ IterIdle /\ TyInit /\ ValIdle /\ ThrInit
    /\ SchedIdle /\ ViewIdle

SpecThread == InitThread /\ [][ThrNext]_vars

\* threads that stop, sleep and wake each other
InitSched ==
    /\ IntInit /\ AryIdle /\ IterIdle /\ TyInit /\ ValIdle /\ ThrIdle
    /\ SchedInit /\ ViewIdle

SpecSched == InitSched /\ [][SchedNext]_vars

\* an array read through the borrowed view of its storage
InitView ==
    /\ IntInit /\ AryIdle /\ IterIdle /\ TyInit /\ ValIdle /\ ThrIdle
    /\ SchedIdle /\ ViewInit

SpecView == InitView /\ [][ViewNext]_vars

\* one array of integers, strings and nil, whose elements are removed and
\* converted
InitTake ==
    /\ IntInit
    /\ AryInit({"A"}, {NativeInt(1), NativeValue(StringVal), NativeValue(QNIL)})
    /\ IterIdle
    /\ TyInit /\ ValIdle /\ ThrIdle /\ SchedIdle /\ ViewIdle

SpecTake == InitTake /\ [][TakeNext]_vars


-----------------------------------------------------------------------------
(* Properties of the array operations *)

ElementsAfter(h) == RARRAY(arr'[h], roots')

SharedBothWays(a, b) == is_shared(a, b) /\ is_shared(b, a)

\* a step of a mutating operation on the array of handle h
Mutation(h) ==
    \/ \E x \in items : Push(h, x)
    \/ Pop(h)
    \/ \E x \in items : Unshift(h, x)
    \/ Shift(h)
    \/ \E x \in items : Delete(h, x)
    \/ \E k \in DeleteAtIndexes : DeleteAt(h, k)
    \/ Clear(h)
    \/ \E l \in ResizeLens : Resize(h, l)
    \/ Reverse(h)
    \/ \E c \in RotateCounts : Rotate(h, c)
    \/ Sort(h)
    \/ \E k \in StoreOffsets, x \in items : Store(h, k, x)
    \/ \E s \in CatSlices : Cat(h, s)
    \/ \E g \in handles : Concat(h, g)

\* array g was made a duplicate of array h in this step
Duplicated(h, g) == Dup(h, g) \/ (Replace(g, h) /\ alast'.res = "ok")

C6_NoForeignUnwind == alast.res # "unwind"

\* C7: every mutating operation applied to a frozen array returns Err and
\* leaves the array's length and elements as they were
C7_FrozenMutationIsErr ==
    [][\A h \in Handles :
         (arr[h].frozen /\ (Mutation(h) \/ Replace(h, h)))
         => (alast'.res = "err" /\ ElementsAfter(h) = Elements(h))
      ]_vars

-----------------------------------------------------------------------------
(* Properties of the construction from an iterator *)

Errors == {k \in 1 .. Len(pulled) : ~pulled[k].ok}

\* C8: when the iterator is exhausted without an error, the array returned
\* holds exactly the items yielded, in the order they were yielded, for
\* every number of items up to MaxIter (below, at and above the batch size
\* and its multiples)
C8_FromIterKeepsItems ==
    (ipc = "done" /\ Errors = {})
    => (/\ iret.tag = "ok"
        /\ len(iret.ary, NoRoots) = Len(pulled)
        /\ RARRAY(iret.ary, NoRoots) =
               [k \in 1 .. Len(pulled) |->
                   into_value(NativeInt(pulled[k].v))])

\* ary_from_iter returned an array of MaxIter items, built from full
\* batches and a final partial one
C8_Witness ==
    /\ ipc = "done"
    /\ ~ifallible
    /\ iret.tag = "ok"
    /\ Len(pulled) = MaxIter
    /\ Len(icats) > 1
    /\ icats[Len(icats)] \in 1 .. (BufferLen - 1)

\* C9: the call returns Err(e) exactly when the iterator yielded an error,
\* e is the first error, that error is the last result pulled, and no array
\* is returned; while the loop runs no error has been yielded
C9_FirstErrorReturned ==
    /\ ipc = "loop" => Errors = {}
    /\ ipc = "done" =>
         IF Errors = {} THEN iret.tag = "ok"
         ELSE /\ Errors = {Len(pulled)}
              /\ iret = RetErr(pulled[Len(pulled)].v)

\* an error after more than one batch, with items appended to the array and
\* items waiting in the buffer
C9_Witness ==
    /\ ipc = "done"
    /\ iret.tag = "err"
    /\ Len(pulled) > BufferLen + 1
    /\ bi > 0
    /\ len(iary, NoRoots) = BufferLen

-----------------------------------------------------------------------------
(* Properties of the conversions *)

IsFloat(v) == rb_type(v) = "RUBY_T_FLOAT"

Live(v) == v.t \notin FreedTypes

\* C13: Integer::try_convert of a floating-point value is Err, and
\* Integer::from_value of one is None
C13_FloatNeverConverts ==
    /\ (vop = "Integer::try_convert" /\ IsFloat(vin)) => vout.res = "err"
    /\ (vop = "Integer::from_value" /\ IsFloat(vin)) => vout.res = "none"

\* C14: for a live value, Integer::try_convert and RArray::try_convert
\* succeed on an exact tag match without calling foreign code; otherwise
\* they (and RArray::to_ary) call the implicit conversion under protect, and
\* a to_int / to_ary that raises or returns a value of the wrong type gives
\* Err; the call never panics and never lets a foreign exception unwind
C14_ImplicitConversionIsProtected ==
    (/\ vop \in {"Integer::try_convert", "RArray::try_convert", "RArray::to_ary"}
     /\ Live(vin))
    => (/\ vout.res \in {"ok", "err"}
        /\ (vop = "Integer::try_convert"
            /\ rb_type(vin) \in {"RUBY_T_FIXNUM", "RUBY_T_BIGNUM"})
           => vout = Outcome("ok", vin, FALSE)
        /\ (vop = "RArray::try_convert" /\ rb_type(vin) = "RUBY_T_ARRAY")
           => vout = Outcome("ok", vin, FALSE)
        /\ vin \in {RaisingObj, MisconvertingObj}
           => (vout.res = "err" /\ vout.foreign))

\* an object whose to_int raises was converted to an Integer
C14_Witness ==
    /\ vop = "Integer::try_convert"
    /\ vin = RaisingObj
    /\ vout.res = "err"
    /\ vout.foreign

\* C20: in a debug build every discriminator, and RArray::len and as_slice,
\* panic on a value whose foreign type is NONE, ZOMBIE or MOVED
C20_FreedValuePanics ==
    (/\ debug
     /\ ~Live(vin)
     /\ vop \in {"Integer::from_value", "RArray::from_value",
                 "RObject::from_value", "RFile::from_value",
                 "RArray::len", "RArray::as_slice"})
    => vout.res = "panic"

\* C21: at most one of the five from_value discriminators returns Some for a
\* value, an immediate integer is recognised from its tag bit without a type
\* query, and classifying changes nothing but the record of its result
C21_ClassificationExclusive ==
    /\ [](vop = "classify"
          => (/\ Cardinality({d \in Discriminators : vout[d].res = "some"}) <= 1
              /\ vin.t = "fixnum"
                 => (/\ vout.Integer = Outcome("some", vin, FALSE)
                     /\ vout.queries = <<>>)))
    /\ [][vop' = "classify"
           => UNCHANGED <<debug, intVars, aryVars, iterVars, tyVars, thrVars,
                        schedVars, viewVars>>]_vars

\* a Thread was classified: only Thread::from_value accepted it
C21_Witness ==
    /\ vop = "classify"
    /\ vin = ThreadVal
    /\ {d \in Discriminators : vout[d].res = "some"} = {"Thread"}

-----------------------------------------------------------------------------
(* Properties of TypedArray *)

\* C15: every element of an array held through a TypedArray handle converts
\* to T, and to_vec never panics
C15_TypedElementsConvert ==
    /\ \A h \in Handles :
         kind[h] = "TypedArray" => AllConvert(Elements(h))
    /\ alast.res # "panic"

\* the step put a new array into handle h
NewArrayIn(h) ==
    \/ NewRArray(h)
    \/ TypedAryNew(h)
    \/ \E g \in Handles \ {h} : Typecheck(g, h) \/ TypedDup(g, h)
    \/ \E g \in Handles, f \in Handles : TypedPlus(g, f, h)
    \/ \E g \in Handles \ {h} :
          \E o \in SubseqArgs, l \in SubseqArgs : TypedSubseq(g, h, o, l)

\* C16: an array held through a TypedArray handle is hidden, whether made
\* by typed_ary_new, typecheck, dup, plus or subseq; an array loses its
\* hiding only by to_r_array, which consumes the TypedArray handle and
\* leaves an RArray handle; and an array that has a class keeps it: a
\* handle shows a hidden array in place of a visible one only when a new
\* array was put into it
C16_HiddenUntilRevealed ==
    /\ [](\A h \in Handles :
            /\ kind[h] = "TypedArray" => klass[h] = HiddenClass
            /\ klass[h] = ArrayClass => kind[h] = "RArray")
    /\ [][\A h \in Handles :
            /\ (klass[h] = ArrayClass /\ klass'[h] = HiddenClass)
               => NewArrayIn(h)
            /\ (klass[h] = HiddenClass /\ klass'[h] = ArrayClass)
               => (/\ ToRArray(h) \/ NewRArray(h)
                   /\ kind'[h] = "RArray")
         ]_vars

\* a revealed array and a hidden duplicate of it
C16_Witness ==
    /\ kind["A"] = "RArray" /\ klass["A"] = ArrayClass
    /\ kind["B"] = "TypedArray" /\ klass["B"] = HiddenClass
    /\ Elements("A") = Elements("B")
    /\ Len(Elements("A")) = 1
    /\ AllConvert(Elements("A"))

-----------------------------------------------------------------------------
(* Properties of the wrapped closure *)

\* C18: while the closure has not been taken, a mark reports every Value
\* captured in its environment, whatever the layout of Option<F>
C18_MarkReportsEveryCapture ==
    (bridge = "live" /\ slot = "Some" /\ marked.done)
    => CapturedAt(clo) \subseteq marked.at

-----------------------------------------------------------------------------
(* Properties of the conversions to and from native integers *)

\* C22: each to_T returns Ok(v) when the number v of the Integer is in the
\* range of T and Err when it is not, for an immediate and for a heap big
\* integer alike
C22_ToNativeByRange ==
    log.op \in Targets
    => (IF NumVal(log.a) \in TargetRange(log.op)
        THEN log.out = RangeOk(NumVal(log.a))
        ELSE ~log.out.ok)

\* C23: integer_from_u64(n) is an Integer whose number is n, an immediate
\* when n <= FixnumMax and a heap big integer otherwise, and to_u64 of it
\* is Ok(n)
C23_RoundTripU64 ==
    (origin.known /\ log.op \in {"from_u64"} \cup Targets)
    => (/\ NumVal(acc) = origin.n
        /\ WellFormed(acc)
        /\ IsFixnum(acc) <=> origin.n <= FixnumMax
        /\ log.op = "to_u64" => log.out = RangeOk(origin.n))

\* an n above i64::MAX, stored as a heap big integer, was read back
C23_Witness ==
    /\ origin.known
    /\ origin.n > I64Max
    /\ IsBignum(acc)
    /\ log.op = "to_u64"
    /\ log.out = RangeOk(origin.n)

-----------------------------------------------------------------------------
(* Properties of stopping threads *)

\* C24: thread_stop returns an error when stopping the current thread would
\* deadlock, so the living threads are never all blocked in thread_stop (in
\* particular the only living thread is never blocked in it)
C24_StopNeverDeadlocks ==
    ~(\A t \in Living(tstat) :
          Sleeping(tstat[t]) /\ tstat[t].by = "thread_stop")

-----------------------------------------------------------------------------
(* Properties of the borrowed view *)

\* C25: while the view made by to_vec, to_array or to_value_array is alive
\* no foreign call is made, and the view keeps describing the array's
\* storage
C25_ViewPreconditionKept ==
    /\ view.foreign = 0
    /\ view.alive => ViewValid(view, vstore)

-----------------------------------------------------------------------------
(* Properties of the bridge object of a thread's closure *)

\* C26: from the allocation of the bridge object until the thread body has
\* taken the closure, the object is reachable from the creating frame or
\* from the instance variable of the thread, so it is not collected, and
\* the thread body never finds it freed
C26_BridgeReachableUntilTaken ==
    /\ (bridge \in {"live", "freed"} /\ thr \in {"none", "created"})
       => (bridge = "live" /\ slot = "Some" /\ Reachable(held, thr))
    /\ thr = "running" => bridge = "live"
    /\ thr # "crashed"

\* the thread started before ivar_set, and a collection ran: the frame
\* alone kept the bridge object
C26_Witness ==
    /\ thr = "running"
    /\ held = {"frame"}
    /\ marked.done
    /\ bridge = "live"
    /\ invoked = 1

-----------------------------------------------------------------------------
(* Properties of Integer division *)

\* C27: for every dividend and non-zero divisor the quotient `/` returns is
\* the one the foreign big-integer division gives for the same numbers (the
\* floor), in every representation combination
C27_DivRepresentationIndependent ==
    log.op = "div"
    => (/\ WellFormed(acc)
        /\ NumVal(acc) =
             NumVal(rb_big_div(HeapBig(NumVal(log.a)), HeapBig(NumVal(log.b))).v))

\* C28: division by zero neither panics nor lets a foreign exception unwind
\* through native frames, in any representation combination
C28_DivByZeroRecoverable ==
    NumVal(log.b) = 0 => log.op \notin {"panic", "unwind"}

-----------------------------------------------------------------------------
(* Properties of pop, shift and delete_at *)

\* the position (from 1) that the last pop, shift or delete_at names in the
\* elements the array had, or 0 when there is no such element
TakenAt ==
    LET n == Len(alast.before)
        at == IF alast.index < 0 THEN alast.index + n ELSE alast.index
    IN  CASE alast.op = "pop" -> n
          [] alast.op = "shift" -> IF n = 0 THEN 0 ELSE 1
          [] OTHER -> IF at < 0 \/ at >= n THEN 0 ELSE at + 1

\* the elements without the one at position k
Without(e, k) == SubSeq(e, 1, k - 1) \o SubSeq(e, k + 1, Len(e))

-----------------------------------------------------------------------------
(* Properties of the batches of ary_try_from_iter *)

\* C30: the buffer index stays within 0 .. BufferLen - 1; while the loop
\* runs, one full batch of BufferLen items has been appended for every
\* BufferLen items yielded and the rest wait in the buffer; an error-free
\* iterator of n items ends with n div BufferLen full batches and one final
\* batch of n mod BufferLen items, and the array holds every item once, in
\* order
C30_BatchedAppend ==
    /\ bi \in 0 .. (BufferLen - 1)
    /\ ipc = "loop"
       => (/\ Len(icats) = Len(pulled) \div BufferLen
           /\ bi = Len(pulled) % BufferLen
           /\ \A k \in 1 .. Len(icats) : icats[k] = BufferLen
           /\ len(iary, NoRoots) = BufferLen * Len(icats))
    /\ (ipc = "done" /\ Errors = {})
       => (/\ Len(icats) = (Len(pulled) \div BufferLen) + 1
           /\ \A k \in 1 .. (Len(icats) - 1) : icats[k] = BufferLen
           /\ icats[Len(icats)] = Len(pulled) % BufferLen
           /\ RARRAY(iary, NoRoots) =
                  [k \in 1 .. Len(pulled) |-> into_value(NativeInt(pulled[k].v))])

\* an iterator of exactly two buffers of items: two full batches and an
\* empty final one
C30_Witness ==
    /\ ipc = "done"
    /\ Errors = {}
    /\ Len(pulled) = 2 * BufferLen
    /\ icats = <<BufferLen, BufferLen, 0>>


====
